---- MODULE Spec2Model ----
(***************************************************************************)
(* Verification model of the Modbus RTU sniffer for the CHINT DTSU666      *)
(* meter: modbusSnifferV2.py (CRC-checked frame scanner) and               *)
(* modbusSniffer.py (heuristic request/response scanner).                  *)
(*                                                                         *)
(* Bytes are integers 0..255, a bytes object is a sequence of bytes.       *)
(* Python offsets are 0-based; At(b, i) is Python's b[i] and Slice(b,lo,hi)*)
(* is Python's b[lo:hi] for 0 <= lo.                                       *)
(*                                                                         *)
(* Loops over a buffer are written as folds that halve the index range, so *)
(* that a loop over n bytes is evaluated with nesting O(log n); the        *)
(* accumulator is compared first in each fold so that it is a value before *)
(* the next half of the range is entered.                                  *)
(***************************************************************************)
EXTENDS Integers, Sequences, FiniteSets, TLC

VARIABLES
    \* ---- CRC engine of modbusSnifferV2.py, driven on its own
    crc_b,          \* the data bytes b handed to crc16
    crc_frame,      \* the frame built from b and its checksum
    crc_order,      \* "none" | "le" | "be": order of the appended checksum
    crc_result,     \* "none" | "true" | "false": what is_valid_crc returned
    \* ---- modbusSnifferV2.py main()
    buffer,                     \* main: buffer
    frame_start,                \* main: frame_start
    last_request_start_addr,    \* global; None is NoneVal
    last_request_registers,     \* global; None is NoneVal
    v2_pc,          \* "read": at ser.read | "scan": in the frame-search loop
                    \* | "stopped": an exception has left main()
                    \* | "beyond", "untracked": see V2LiveReadData
    v2_iter,        \* passes of the outer "while True" so far
    v2_fresh,       \* bytes were appended since the last complete search
    v2_steps,       \* passes of the frame-search loop in the current search
    v2_len0,        \* len(buffer) when the current search started
    v2_base,        \* offset of buffer[0] in the stream of bytes read
    v2_last_end,    \* stream offset just after the last frame handed on
    v2_rescan,      \* frames handed on by a search that had no new bytes
    v2_info,        \* the last valid_frame, its frame_info['request_type']
                    \* and ['smart_meter_values'], and what the sinks did
    \* ---- modbusSniffer.py main loop
    data_buffer,        \* data_buffer
    last_request,       \* last_request: PyNone or a request dict
    mapped_values,      \* mapped_values: Unbound, PyNone or a dict
    frames_processed,   \* frames_processed
    requests_found,     \* requests_found
    responses_found,    \* responses_found
    v1_i,           \* i of the direct search
    v1_pc,          \* the place in the pass: "read", "prep", "pairs",
                    \* "single", "fallback", "direct_if", "direct", "tail"
    v1_cycle,       \* passes of "while True" started
    v1_spin,        \* passes of the direct search loop in this pass
    v1_mqtt_up,     \* the broker accepts connections during this pass
    v1_old,         \* data_buffer before the append of this pass
    v1_new,         \* data_bytes of this pass
    v1_published,   \* what send_mqtt published in this pass
    v1_events,      \* the frames processed in this pass
    v1_log,         \* what each step of this pass did with the frames it met
    \* ---- functions of modbusSniffer.py, called on their own
    call_args,      \* the arguments of the call, PyNone when there is none
    call_result     \* what the call returned, PyNone before it returns

crcVars == <<crc_b, crc_frame, crc_order, crc_result>>

v2Vars == <<buffer, frame_start, last_request_start_addr,
            last_request_registers, v2_pc, v2_iter, v2_fresh, v2_steps,
            v2_len0, v2_base, v2_last_end, v2_rescan, v2_info>>

v1Vars == <<data_buffer, last_request, mapped_values, frames_processed,
            requests_found, responses_found, v1_i, v1_pc, v1_cycle, v1_spin,
            v1_mqtt_up, v1_old, v1_new, v1_published, v1_events, v1_log>>

callVars == <<call_args, call_result>>

vars == <<crcVars, v2Vars, v1Vars, callVars>>
notCrc == <<v2Vars, v1Vars, callVars>>
notV2 == <<crcVars, v1Vars, callVars>>
notV1 == <<crcVars, v2Vars, callVars>>
notCall == <<crcVars, v2Vars, v1Vars>>

(***************************************************************************)
(* Python helpers                                                          *)
(***************************************************************************)
Min2(a, b) == IF a <= b THEN a ELSE b

At(b, i) == b[i + 1]

Slice(b, lo, hi) == SubSeq(b, lo + 1, Min2(hi, Len(b)))

\* the least element of a non-empty set of integers
MinOf(S) == CHOOSE m \in S : \A k \in S : m <= k

\* order of the magnitudes of two singles, neither a NaN
WordLess(a, b) == a[1] < b[1] \/ (a[1] = b[1] /\ a[2] < b[2])

(***************************************************************************)
(* Bit operations on 16-bit integers                                       *)
(***************************************************************************)
RECURSIVE XorBits(_, _, _)
XorBits(a, b, n) ==
    IF n = 0 THEN 0
    ELSE ((a + b) % 2) + 2 * XorBits(a \div 2, b \div 2, n - 1)

\* a ^ b for 4-bit a, b, tabulated at index 16*a + b
NibbleXor == [p \in 0..255 |-> XorBits(p \div 16, p % 16, 4)]

XorByte(a, b) ==
    16 * NibbleXor[(a \div 16) * 16 + (b \div 16)]
        + NibbleXor[(a % 16) * 16 + (b % 16)]

\* a ^ b for 16-bit a, b
Xor16(a, b) ==
    256 * XorByte(a \div 256, b \div 256) + XorByte(a % 256, b % 256)

(***************************************************************************)
(* modbusSnifferV2.py: constants and CRC engine                            *)
(***************************************************************************)
MIN_FRAME_SIZE == 6
MAX_FRAME_SIZE == 256

\* for _ in range(8): crc = (crc >> 1) ^ 0xA001 if crc & 1 else crc >> 1
RECURSIVE crcShift(_, _)
crcShift(crc, k) ==
    IF k = 0 THEN crc
    ELSE crcShift(IF crc % 2 = 1 THEN Xor16(crc \div 2, 40961)
                  ELSE crc \div 2, k - 1)

\* one pass of "for b in data": crc ^= b, then the 8 shifts
crcByte(crc, b) == crcShift(Xor16(crc, b), 8)

\* the loop "for b in data" over data[lo..hi] (1-based), from register crc
RECURSIVE crcLoop(_, _, _, _)
crcLoop(data, lo, hi, crc) ==
    IF crc < 0 \/ lo > hi THEN crc
    ELSE IF lo = hi THEN crcByte(crc, data[lo])
    ELSE LET mid == (lo + hi) \div 2
         IN  crcLoop(data, mid + 1, hi, crcLoop(data, lo, mid, crc))

\* crc.to_bytes(2, 'little')
to_bytes_little(crc) == <<crc % 256, crc \div 256>>

crc16(data) == to_bytes_little(crcLoop(data, 1, Len(data), 65535))

is_valid_crc(frame) ==
    IF Len(frame) < MIN_FRAME_SIZE THEN FALSE
    ELSE LET data         == SubSeq(frame, 1, Len(frame) - 2)
             crc_received == SubSeq(frame, Len(frame) - 1, Len(frame))
             crc_calc     == crc16(data)
         IN  crc_received = crc_calc

(***************************************************************************)
(* modbusSnifferV2.py: decode_modbus_frame and the main loop               *)
(***************************************************************************)
\* Python's None in last_request_start_addr / last_request_registers
NoneVal == -1

\* registers of a response: one 16-bit value per complete pair of data bytes
registers_of(data) ==
    [k \in 1..(Len(data) \div 2) |-> data[2 * k - 1] * 256 + data[2 * k]]

\* interpret_float32(high_word, low_word): the 32 bits of
\* struct.unpack('>f', high_word.to_bytes(2, 'big') +
\* low_word.to_bytes(2, 'big')), held as <<high 16 bits, low 16 bits>>;
\* to_bytes does not raise for a register value 0..65535
interpret_float32(high_word, low_word) == <<high_word, low_word>>

\* decode_modbus_frame(frame) with the two globals it reads and writes.
\* frame is CRC-valid, so len(frame) >= MIN_FRAME_SIZE.
decode_modbus_frame(frame, lrs, lrr) ==
    LET function_code == At(frame, 1)
        none == [function_code |-> function_code, request_type |-> "none",
                 start_addr |-> NoneVal, reg_count |-> NoneVal,
                 registers |-> <<>>, decode_addr |-> NoneVal,
                 lrs |-> lrs, lrr |-> lrr]
    IN  IF function_code = 3
        THEN IF Len(frame) < 8
             THEN LET start_addr == At(frame, 2) * 256 + At(frame, 3)
                      reg_count  == At(frame, 4) * 256 + At(frame, 5)
                  IN  [none EXCEPT !.request_type = "request",
                                   !.start_addr = start_addr,
                                   !.reg_count = reg_count,
                                   !.lrs = start_addr,
                                   !.lrr = reg_count]
             ELSE LET data_len == At(frame, 2)
                  IN  IF Len(frame) < 3 + data_len
                      THEN none
                      ELSE LET registers ==
                                   registers_of(Slice(frame, 3, 3 + data_len))
                               done == /\ lrs # NoneVal
                                       /\ lrr # NoneVal
                                       /\ Len(registers) = lrr
                           IN  [none EXCEPT
                                   !.request_type = "response",
                                   !.registers = registers,
                                   !.decode_addr = lrs,
                                   !.lrs = IF done THEN NoneVal ELSE lrs,
                                   !.lrr = IF done THEN NoneVal ELSE lrr]
        ELSE IF function_code = 16
        THEN [none EXCEPT !.start_addr = At(frame, 2) * 256 + At(frame, 3),
                          !.reg_count = At(frame, 4) * 256 + At(frame, 5)]
        ELSE none

\* REGISTER_MAP of modbusSnifferV2.py: for every address the word of the
\* name that the plausibility test of try_decode_with_addr looks for
\* ("other" when the name holds none of them); every format is float32
REGISTER_MAP_V2 ==
    [a \in {8198 + 2 * k : k \in 0..13} \cup {8234, 8236, 8238, 8240, 8260, 4126, 4136} |->
        IF a \in {8198, 8200, 8202} THEN "Spannung"
        ELSE IF a \in {8204, 8206, 8208} THEN "Strom"
        ELSE IF a = 8260 THEN "Frequenz"
        ELSE "other"]

\* try_decode_with_addr: value = interpret_float32(...) * factor is not
\* skipped as unplausible.  f is the single before the factor; the tests
\* "value < 10 or value > 500" (factor 0.1), "value < 0 or value > 100"
\* (factor 0.001) and "value < 45 or value > 65" (factor 0.01) are those of
\* 100 <= f <= 5000, 0 <= f <= 100000 and 4500 <= f <= 6500; every
\* comparison with a NaN is false
value_kept(name, f) ==
    IF WordLess(<<32640, 0>>, <<f[1] % 32768, f[2]>>) THEN TRUE
    ELSE IF name = "Spannung"
    THEN /\ f[1] < 32768
         /\ ~WordLess(f, <<17096, 0>>)
         /\ ~WordLess(<<17820, 16384>>, f)
    ELSE IF name = "Strom"
    THEN \/ <<f[1] % 32768, f[2]>> = <<0, 0>>
         \/ f[1] < 32768 /\ ~WordLess(<<18371, 20480>>, f)
    ELSE IF name = "Frequenz"
    THEN /\ f[1] < 32768
         /\ ~WordLess(f, <<17804, 40960>>)
         /\ ~WordLess(<<17867, 8192>>, f)
    ELSE TRUE

\* try_decode_with_addr(registers, request_addr): the dict decoded, held as
\* the set of its entries: addr is the address whose name is the key,
\* value the single that is stored (before the factor)
try_decode_with_addr(registers, request_addr) ==
    {[addr |-> request_addr + i,
      value |-> interpret_float32(registers[i + 1], registers[i + 2])] : i \in
        {i \in 0..(Len(registers) - 2) :
            /\ i % 2 = 0
            /\ request_addr + i \in DOMAIN REGISTER_MAP_V2
            /\ value_kept(REGISTER_MAP_V2[request_addr + i],
                          interpret_float32(registers[i + 1],
                                            registers[i + 2]))}}

\* decode_smart_meter_registers(registers, request_addr)
decode_smart_meter_registers(registers, request_addr) ==
    IF Len(registers) < 2 THEN {}
    ELSE IF request_addr # NoneVal
    THEN try_decode_with_addr(registers, request_addr)
    ELSE IF 17000 < registers[1] /\ registers[1] < 18000
    THEN try_decode_with_addr(registers, 8198)
    ELSE IF registers[1] > 30000
    THEN try_decode_with_addr(registers, 16384)
    ELSE IF Cardinality(try_decode_with_addr(registers, 16384))
                > Cardinality(try_decode_with_addr(registers, 8198))
    THEN try_decode_with_addr(registers, 16384)
    ELSE try_decode_with_addr(registers, 8198)

\* frame_info['smart_meter_values'] after decode_modbus_frame and
\* print_frame_info, {} when the key is absent or the dict empty
smart_meter_values(info) ==
    IF info.request_type # "response" THEN {}
    ELSE IF info.decode_addr # NoneVal /\ decode_smart_meter_registers(info.registers, info.decode_addr) # {}
    THEN decode_smart_meter_registers(info.registers, info.decode_addr)
    ELSE decode_smart_meter_registers(info.registers, NoneVal)

\* main: the globals after "if frame_info['function_code'] == 3 and
\* frame_info['request_type'] == 'request'"
request_globals(info) ==
    IF info.function_code = 3 /\ info.request_type = "request"
    THEN <<info.start_addr, info.reg_count>>
    ELSE <<info.lrs, info.lrr>>

\* the largest frame_size of range(MIN_FRAME_SIZE, min(MAX_FRAME_SIZE,
\* len(buffer) - frame_start + 1))
max_frame_size(buf, fs) == Min2(MAX_FRAME_SIZE, Len(buf) - fs + 1) - 1

\* One pass of "for frame_size in range(...)" at offset fs, for the frame
\* sizes whose last data byte is buffer[fs + j - 1], j in lo..hi.  st is
\* <<crc, found>>: crc is crc16's register after the first j - 1 bytes from
\* fs (is_valid_crc recomputes it for every frame_size; here it is carried
\* from one frame_size to the next), found is the frame_size of the first
\* possible_frame with is_valid_crc, 0 while there is none ("break").
RECURSIVE scan_sizes(_, _, _, _, _)
scan_sizes(buf, fs, lo, hi, st) ==
    IF st[2] < 0 \/ lo > hi THEN st
    ELSE IF lo = hi
    THEN LET crc  == crcByte(st[1], At(buf, fs + lo - 1))
             size == lo + 2
         IN  IF /\ st[2] = 0
                /\ size >= MIN_FRAME_SIZE
                /\ size <= max_frame_size(buf, fs)
                /\ Slice(buf, fs + lo, fs + size) = to_bytes_little(crc)
             THEN <<crc, size>>
             ELSE <<crc, st[2]>>
    ELSE LET mid == (lo + hi) \div 2
         IN  scan_sizes(buf, fs, mid + 1, hi,
                        scan_sizes(buf, fs, lo, mid, st))

\* len(valid_frame) for the search at frame_start = fs; 0 for valid_frame None
valid_frame_size(buf, fs) ==
    scan_sizes(buf, fs, 1, max_frame_size(buf, fs) - 2, <<65535, 0>>)[2]

\* the same, as the code computes it: is_valid_crc on every possible_frame
valid_frame_size_direct(buf, fs) ==
    LET ok == {n \in MIN_FRAME_SIZE..max_frame_size(buf, fs) :
                   is_valid_crc(Slice(buf, fs, fs + n))}
    IN  IF ok = {} THEN 0 ELSE MinOf(ok)

\* "while frame_start < len(buffer) and len(buffer) - frame_start >=
\* MIN_FRAME_SIZE"
search_goes_on(buf, fs) ==
    fs < Len(buf) /\ Len(buf) - fs >= MIN_FRAME_SIZE

\* a variant that drops len(valid_frame) bytes and forgets frame_start
consume_frame_front_only(buf, fs, size) == Slice(buf, size, Len(buf))

\* buffer = buffer[frame_start + len(valid_frame):]
consume_frame(buf, fs, size) == Slice(buf, fs + size, Len(buf))

\* a variant that skips a byte
next_frame_start_two(fs) == fs + 2

\* frame_start += 1
next_frame_start(fs) == fs + 1

\* "if len(buffer) > MAX_FRAME_SIZE * 2: buffer = buffer[-MAX_FRAME_SIZE:]"
trim_buffer(buf) ==
    IF Len(buf) > MAX_FRAME_SIZE * 2
    THEN Slice(buf, Len(buf) - MAX_FRAME_SIZE, Len(buf))
    ELSE buf

\* ---- the bytes a ser.read(256) may return
WithCrc(b) == b \o crc16(b)
V2Resp   == WithCrc(<<1, 3, 4, 0, 0, 67, 102>>)     \* response, 4 data bytes
V2Volt   == WithCrc(<<1, 3, 4, 67, 102, 102, 102>>) \* response, 230.4 unswapped
V2Req    == WithCrc(<<1, 3, 32, 6, 0, 2>>)          \* 8-byte request
V2Short  == WithCrc(<<1, 3, 32, 6, 0>>)             \* 7 bytes, CRC-valid
V2Noise  == <<170>>
V2Junk   == <<170, 171, 172, 173, 174, 175>>
V2Flood  == [k \in 1..MAX_FRAME_SIZE |-> 16 + (k % 16)]  \* a full read

\* 8 bytes, CRC-valid, third byte 4: a request for 0x6666 registers at 0x0443
V2Eight  == WithCrc(<<1, 3, 4, 67, 102, 102>>)

\* a response with function code 4 (Read Input Registers), 4 data bytes
V2Four   == WithCrc(<<1, 4, 4, 67, 102, 102, 102>>)

\* a response whose register pair 0x7FC0 0x0000 is a NaN
V2NaN    == WithCrc(<<1, 3, 4, 127, 192, 0, 0>>)

V2Reads == {V2Resp, V2Volt, V2Req, V2Short, V2Noise, V2Junk,
            SubSeq(V2Resp, 1, 4), SubSeq(V2Resp, 5, Len(V2Resp))}
V2FloodReads == {V2Flood}
\* whole frames of the kinds above, one per read
V2FrameReads == {V2Volt, V2Eight, V2Four, V2NaN, V2Short}

MaxV2Iter == 4
MaxV2FloodIter == 4
MaxV2FrameIter == 4

InitV2 ==
    /\ buffer = <<>>
    /\ frame_start = 0
    /\ last_request_start_addr = NoneVal
    /\ last_request_registers = NoneVal
    /\ v2_pc = "read"
    /\ v2_iter = 0
    /\ v2_fresh = FALSE
    /\ v2_steps = 0
    /\ v2_len0 = 0
    /\ v2_base = 0
    /\ v2_last_end = 0
    /\ v2_rescan = 0
    /\ v2_info = [frame |-> <<>>, request_type |-> "none",
                  smart_meter_values |-> {}, csv |-> "none", mqtt |-> "none"]

\* ser.read(256) returned data: it is appended, last_data_time becomes
\* current_time, so current_time - last_data_time > TIMEOUT is false and
\* the frame search is skipped.
V2ReadData(reads, maxIter) ==
    /\ v2_pc = "read"
    /\ v2_iter < maxIter
    /\ \E data \in reads :
           /\ buffer' = buffer \o data
           /\ v2_fresh' = TRUE
    /\ v2_iter' = v2_iter + 1
    /\ UNCHANGED <<frame_start, last_request_start_addr,
                   last_request_registers, v2_pc, v2_steps, v2_len0,
                   v2_base, v2_last_end, v2_rescan, v2_info>>

\* ser.read(256) timed out after TIMEOUT with no data: current_time is more
\* than TIMEOUT after last_data_time, and a non-empty buffer is searched.
V2ReadNothing(maxIter) ==
    /\ v2_pc = "read"
    /\ v2_iter < maxIter
    /\ v2_iter' = v2_iter + 1
    /\ IF Len(buffer) > 0
       THEN /\ v2_pc' = "scan"
            /\ frame_start' = 0
            /\ v2_steps' = 0
            /\ v2_len0' = Len(buffer)
       ELSE UNCHANGED <<v2_pc, frame_start, v2_steps, v2_len0>>
    /\ UNCHANGED <<buffer, last_request_start_addr, last_request_registers,
                   v2_fresh, v2_base, v2_last_end, v2_rescan, v2_info>>

\* export_to_csv(frame_info) and publish_mqtt(frame_info, mqtt_config) for
\* the values decoded.  Both return at once when there are none.
\* export_to_csv opens the file and writes, and an OSError of open() or of
\* the write leaves the function: csv is "written" or "error".
\* publish_mqtt returns when MQTT_PUBLISH_INTERVAL has not passed ("wait");
\* otherwise connect() and publish() run inside "try: ... except Exception"
\* ("sent" or "error").  publish_mqtt is not reached after an OSError.
sink_outcomes(values) ==
    IF values = {} THEN {[csv |-> "none", mqtt |-> "none"]}
    ELSE {[csv |-> "error", mqtt |-> "none"]}
         \cup {[csv |-> "written", mqtt |-> m] : m \in {"wait", "sent", "error"}}

\* ---- publish_mqtt with its global mqtt_last_publish_time
MQTT_PUBLISH_INTERVAL == 10

\* a variant that stamps the time of a failed attempt, too
publish_mqtt_stamps_failure(has_values, current_time, last_publish_time, raised) ==
    IF ~has_values
    THEN [outcome |-> "none", mqtt_last_publish_time |-> last_publish_time]
    ELSE IF current_time - last_publish_time < MQTT_PUBLISH_INTERVAL
    THEN [outcome |-> "wait", mqtt_last_publish_time |-> last_publish_time]
    ELSE IF raised # "none"
    THEN [outcome |-> "error", mqtt_last_publish_time |-> current_time]
    ELSE [outcome |-> "sent", mqtt_last_publish_time |-> current_time]

\* publish_mqtt(frame_info, mqtt_config): has_values says whether frame_info
\* holds smart_meter_values, current_time is what time.time() returns,
\* last_publish_time the global before the call, raised the call inside
\* "try" that raises ("connect", "publish", "disconnect") or "none".  The
\* result is what happened and the global after the call: it is set only
\* at the end of the try block.
publish_mqtt(has_values, current_time, last_publish_time, raised) ==
    IF ~has_values
    THEN [outcome |-> "none", mqtt_last_publish_time |-> last_publish_time]
    ELSE IF current_time - last_publish_time < MQTT_PUBLISH_INTERVAL
    THEN [outcome |-> "wait", mqtt_last_publish_time |-> last_publish_time]
    ELSE IF raised # "none"
    THEN [outcome |-> "error", mqtt_last_publish_time |-> last_publish_time]
    ELSE [outcome |-> "sent", mqtt_last_publish_time |-> current_time]

\* one pass of the frame-search loop; counted says whether v2_base,
\* v2_last_end and v2_rescan, which the code does not have, are kept up to
\* date.  An exception that leaves
\* export_to_csv is neither a KeyboardInterrupt nor a serial.SerialException,
\* so it leaves "while True" and main(): v2_pc becomes "stopped".
V2ScanStepOn(counted) ==
    /\ v2_pc = "scan"
    /\ search_goes_on(buffer, frame_start)
    /\ v2_steps' = v2_steps + 1
    /\ LET size == valid_frame_size(buffer, frame_start)
       IN  IF size > 0
           THEN LET valid_frame ==
                        Slice(buffer, frame_start, frame_start + size)
                    info == decode_modbus_frame(valid_frame,
                                                last_request_start_addr,
                                                last_request_registers)
                    after == consume_frame(buffer, frame_start, size)
                IN  /\ last_request_start_addr' = request_globals(info)[1]
                    /\ last_request_registers' = request_globals(info)[2]
                    /\ \E sink \in sink_outcomes(smart_meter_values(info)) :
                           /\ v2_info' = [frame |-> valid_frame,
                                          request_type |-> info.request_type,
                                          smart_meter_values |->
                                              smart_meter_values(info),
                                          csv |-> sink.csv,
                                          mqtt |-> sink.mqtt]
                           /\ IF sink.csv = "error"
                              THEN /\ v2_pc' = "stopped"
                                   /\ UNCHANGED <<buffer, frame_start,
                                                  v2_base, v2_last_end,
                                                  v2_rescan>>
                              ELSE /\ buffer' = after
                                   /\ frame_start' = 0
                                   /\ IF counted
                                      THEN /\ v2_base' = v2_base
                                               + (Len(buffer) - Len(after))
                                           /\ v2_last_end' =
                                               v2_base + frame_start + size
                                           /\ v2_rescan' =
                                               IF v2_fresh THEN v2_rescan
                                               ELSE v2_rescan + 1
                                      ELSE UNCHANGED <<v2_base, v2_last_end,
                                                       v2_rescan>>
                                   /\ UNCHANGED v2_pc
           ELSE /\ frame_start' = next_frame_start(frame_start)
                /\ UNCHANGED <<buffer, last_request_start_addr,
                               last_request_registers, v2_base,
                               v2_last_end, v2_rescan, v2_info, v2_pc>>
    /\ UNCHANGED <<v2_iter, v2_fresh, v2_len0>>

\* the pass, with the positions in the byte stream counted
V2ScanStep == V2ScanStepOn(TRUE)

\* the frame-search loop is left: the buffer is trimmed, then time.sleep
V2ScanEnd ==
    /\ v2_pc = "scan"
    /\ ~search_goes_on(buffer, frame_start)
    /\ buffer' = trim_buffer(buffer)
    /\ v2_base' = v2_base + (Len(buffer) - Len(trim_buffer(buffer)))
    /\ v2_pc' = "read"
    /\ v2_fresh' = FALSE
    /\ UNCHANGED <<frame_start, last_request_start_addr,
                   last_request_registers, v2_iter, v2_steps, v2_len0,
                   v2_last_end, v2_rescan, v2_info>>

\* ---- the same loop with no limit on the number of reads.  The buffer
\* of the code grows with every read that returns data; the model follows
\* it up to MaxLiveLen bytes.  A read that would take it beyond is still
\* appended by the code, and the model goes to "beyond", where it follows
\* only the reads; a search that starts there is not followed
\* ("untracked").  v2_iter is the parity of the number of reads, and the
\* positions in the byte stream are not counted.
MaxLiveLen == 12
V2LiveReads == {V2Volt, V2Noise}

\* ser.read(256) returned data (lines 518-526): the frame search is skipped
V2LiveReadData ==
    /\ v2_pc \in {"read", "beyond"}
    /\ \E data \in V2LiveReads :
           IF v2_pc = "read" /\ Len(buffer) + Len(data) <= MaxLiveLen
           THEN buffer' = buffer \o data /\ v2_pc' = "read"
           ELSE buffer' = buffer /\ v2_pc' = "beyond"
    /\ v2_fresh' = TRUE
    /\ v2_iter' = 1 - v2_iter
    /\ UNCHANGED <<frame_start, last_request_start_addr,
                   last_request_registers, v2_steps, v2_len0,
                   v2_base, v2_last_end, v2_rescan, v2_info>>

\* ser.read(256) timed out with no data (lines 518-530)
V2LiveReadNothing ==
    /\ v2_pc \in {"read", "beyond"}
    /\ v2_iter' = 1 - v2_iter
    /\ IF v2_pc = "beyond"
       THEN /\ v2_pc' = "untracked"
            /\ UNCHANGED <<frame_start, v2_steps, v2_len0>>
       ELSE IF Len(buffer) > 0
       THEN /\ v2_pc' = "scan"
            /\ frame_start' = 0
            /\ v2_steps' = 0
            /\ v2_len0' = Len(buffer)
       ELSE UNCHANGED <<v2_pc, frame_start, v2_steps, v2_len0>>
    /\ UNCHANGED <<buffer, last_request_start_addr, last_request_registers,
                   v2_fresh, v2_base, v2_last_end, v2_rescan, v2_info>>

(***************************************************************************)
(* modbusSniffer.py: values, payload decoding, frame extraction            *)
(***************************************************************************)
MAX_BUFFER_SIZE == 4096

\* Python's None, and a name that has not been bound yet
PyNone == [kind |-> "None"]
Unbound == [kind |-> "unbound"]

\* a dict is true when it is not None (the dicts built here are never empty)
Truthy(x) == x.kind = "dict"

Abs(n) == IF n < 0 THEN -n ELSE n

\* the elements of a finite set of integers in increasing order
RECURSIVE SortedSeq(_)
SortedSeq(S) ==
    IF S = {} THEN <<>>
    ELSE <<MinOf(S)>> \o SortedSeq(S \ {MinOf(S)})

\* b.hex(): two hex digits per byte, a digit is 0..15
hex(b) ==
    [k \in 1..(2 * Len(b)) |->
        IF k % 2 = 1 THEN b[(k + 1) \div 2] \div 16 ELSE b[k \div 2] % 16]

\* bytes.fromhex(h)
fromhex(h) == [k \in 1..(Len(h) \div 2) |-> 16 * h[2 * k - 1] + h[2 * k]]

\* int.from_bytes(b[i:i+2], byteorder='big')
be16(b, i) == At(b, i) * 256 + At(b, i + 1)

\* b[i] == 0x9F and b[i+1] in (0x03, 0x04)
is_master_marker(b, i) == At(b, i) = 159 /\ At(b, i + 1) \in {3, 4}

\* 0x2000 <= startreg <= 0x2200 and 1 <= regcount <= 64 for the request at i
plausible_request(b, i) ==
    /\ 8192 <= be16(b, i + 2) /\ be16(b, i + 2) <= 8704
    /\ 1 <= be16(b, i + 4) /\ be16(b, i + 4) <= 64

\* ---- IEEE-754 singles, held as <<high word, low word>> of their 32 bits.
\* struct.unpack(">f", chunk[2:4] + chunk[0:2])
float_inverse(chunk) ==
    <<chunk[3] * 256 + chunk[4], chunk[1] * 256 + chunk[2]>>

\* the bits of abs(f)
magnitude(f) == <<f[1] % 32768, f[2]>>


F_ZERO == <<0, 0>>
F_INF == <<32640, 0>>          \* 0x7F800000; NaNs lie above
F_1E10 == <<20501, 761>>       \* 0x501502F9 = 1e10
F_1E6 == <<18804, 9216>>       \* 0x49742400 = 1e6
F_50000 == <<18243, 20480>>    \* 0x47435000 = 50000
F_1EM10 == <<11995, 59135>>    \* 0x2EDBE6FF, the least single >= 1e-10

\* math.isnan(v) or math.isinf(v)
is_nan_or_inf(f) == ~WordLess(magnitude(f), F_INF)

\* not nan, not inf and -1e6 < v < 1e6
float_valid(f) == WordLess(magnitude(f), F_1E6)

\* 0 <= v <= 500 or 0 <= v <= 100 or 45 <= v <= 65 or -1 <= v <= 1 or
\* -50000 <= v <= 50000: the last range holds the others
float_plausible(f) == ~WordLess(F_50000, magnitude(f))

\* parse_modbus_float_inverse(chunk) for a 4-byte chunk
parse_modbus_float_inverse(chunk) ==
    LET result == float_inverse(chunk)
    IN  IF ~WordLess(magnitude(result), F_1E10)
        THEN PyNone
        ELSE IF WordLess(magnitude(result), F_1EM10)
                  /\ magnitude(result) # F_ZERO
        THEN [kind |-> "float", bits |-> F_ZERO]
        ELSE [kind |-> "float", bits |-> result]

\* skip_bytes of the protocol marker at payload[i], 0 when there is none
marker_skip(payload, i) ==
    LET n == Len(payload)
    IN  IF i + 1 < n /\ is_master_marker(payload, i)
        THEN Min2(8, n - i)
        ELSE IF /\ i + 2 < n
                /\ At(payload, i) # 159
                /\ At(payload, i + 1) \in {3, 4}
                /\ At(payload, i + 2) > 0
                /\ At(payload, i + 2) % 2 = 0
                /\ At(payload, i + 2) <= 250
        THEN Min2(3 + At(payload, i + 2) + 2, n - i)
        ELSE 0

\* The marker-cleaning loop of process_modbus_payload over payload[lo..hi].
\* st is <<cleaned_payload, skip>>; skip counts the bytes still to pass over
\* before the loop's i is reached.
RECURSIVE clean_loop(_, _, _, _)
clean_loop(payload, lo, hi, st) ==
    IF st[2] < 0 \/ lo > hi THEN st
    ELSE IF lo = hi
    THEN IF st[2] > 0 THEN <<st[1], st[2] - 1>>
         ELSE IF marker_skip(payload, lo) > 0
         THEN <<st[1], marker_skip(payload, lo) - 1>>
         ELSE <<Append(st[1], At(payload, lo)), 0>>
    ELSE LET mid == (lo + hi) \div 2
         IN  clean_loop(payload, mid + 1, hi,
                        clean_loop(payload, lo, mid, st))

cleaned_payload(payload) ==
    clean_loop(payload, 0, Len(payload) - 1, <<<<>>, 0>>)[1]

\* cleaned[i*4:i*4+4], i from 0
chunk4(cleaned, i) == SubSeq(cleaned, 4 * i + 1, 4 * i + 4)

\* the format process_modbus_payload picks when force_format is None
auto_format(cleaned) ==
    IF Len(cleaned) % 4 = 0
    THEN LET total_chunks == Len(cleaned) \div 4
             parsed(i) == parse_modbus_float_inverse(chunk4(cleaned, i))
             valid == {i \in 0..(total_chunks - 1) :
                          /\ parsed(i).kind # "None"
                          /\ float_valid(parsed(i).bits)}
             plausible == {i \in valid : float_plausible(parsed(i).bits)}
         IN  IF /\ total_chunks > 0
                /\ \/ 10 * Cardinality(plausible) >= 3 * total_chunks
                   \/ 2 * Cardinality(valid) >= total_chunks
             THEN "float32"
             ELSE "int16"
    ELSE "int16"

\* one value of the float32 branch; the value is the single before
\* round(value, 3).  A value of a list is a single <<high word, low word>>
\* or an int <<n>>.
float32_value(chunk) ==
    IF chunk[1] = 159 /\ chunk[2] \in {3, 4}
    THEN F_ZERO
    ELSE IF parse_modbus_float_inverse(chunk).kind = "None"
    THEN F_ZERO
    ELSE parse_modbus_float_inverse(chunk).bits

\* a variant that leaves out the chunks parse_modbus_float_inverse refuses
process_modbus_payload_dropping(payload, force_format) ==
    IF Len(payload) < 2 THEN <<>>
    ELSE LET cleaned == cleaned_payload(payload)
             accepted(chunk) == parse_modbus_float_inverse(chunk).kind # "None"
             chunks == SelectSeq([i \in 1..(Len(cleaned) \div 4) |->
                                     chunk4(cleaned, i - 1)], accepted)
         IN  [i \in 1..Len(chunks) |-> float32_value(chunks[i])]

\* process_modbus_payload(payload, force_format=...); "auto" is None
process_modbus_payload(payload, force_format) ==
    IF Len(payload) < 2 THEN <<>>
    ELSE LET cleaned == cleaned_payload(payload)
             data_format == IF force_format # "auto" THEN force_format
                            ELSE auto_format(cleaned)
         IN  IF data_format = "float32"
             THEN [i \in 1..(Len(cleaned) \div 4) |->
                      float32_value(chunk4(cleaned, i - 1))]
             ELSE [i \in 1..(Len(cleaned) \div 2) |->
                      <<cleaned[2 * i - 1] * 256 + cleaned[2 * i]>>]

\* 2^d
RECURSIVE Pow2(_)
Pow2(d) == IF d = 0 THEN 1 ELSE 2 * Pow2(d - 1)

\* n / 2^d rounded to the nearest integer, a tie to the even one; n >= 0
half_even(n, d) ==
    IF d = 0 THEN n
    ELSE IF d > 31 THEN 0
    ELSE IF d = 31 THEN (IF n > 1073741824 THEN 1 ELSE 0)
    ELSE LET q == n \div Pow2(d)
             r == n % Pow2(d)
             half == Pow2(d - 1)
         IN  IF r > half \/ (r = half /\ q % 2 = 1) THEN q + 1 ELSE q

\* what stands for a value of 2^20 or more: beyond every range
\* apply_plausibility_check knows
Huge == 1000000000

\* round(value, 3) in thousandths, value a single or an int
milli(value) ==
    IF Len(value) = 1 THEN value[1] * 1000
    ELSE LET negative == value[1] >= 32768
             exponent == (value[1] % 32768) \div 128
             mantissa == 8388608 + (value[1] % 128) * 65536 + value[2]
             abs == IF exponent = 0 THEN 0
                    ELSE IF exponent >= 147 THEN Huge
                    ELSE half_even(mantissa * 125, 147 - exponent)
         IN  IF negative THEN -abs ELSE abs

\* SCALING_FACTORS: 0.1 for the voltages, 1.0 for the other labels
SCALING_FACTORS ==
    [label \in {"Uab", "Ubc", "Uca", "Ua", "Ub", "Uc"} |-> 1]
        @@ [label \in {"Ia", "Ib", "Ic", "Pt", "Pa", "Pb", "Pc", "Qt", "Qa",
                       "Qb", "Qc", "PFt", "PFa", "PFb", "PFc", "Freq"} |-> 10]

\* round(v * scaling_factor, 3) in thousandths for v of m thousandths and
\* scaling_factor tenths: a tie of v * 0.1 goes to the even thousandth
scaled(m, tenths) ==
    IF tenths = 10 \/ m = Huge \/ m = -Huge THEN m
    ELSE LET q == (IF m < 0 THEN -m ELSE m) \div 10
             r == (IF m < 0 THEN -m ELSE m) % 10
             abs == IF r > 5 \/ (r = 5 /\ q % 2 = 1) THEN q + 1 ELSE q
         IN  IF m < 0 THEN -abs ELSE abs

\* REGISTER_MAP: register address -> label
REGISTER_MAP ==
    [a \in {8192 + 2 * k : k \in 0..16} \cup {8234, 8236, 8238, 8240, 8260} |->
        IF a = 8192 THEN "Uab" ELSE IF a = 8194 THEN "Ubc"
        ELSE IF a = 8196 THEN "Uca" ELSE IF a = 8198 THEN "Ua"
        ELSE IF a = 8200 THEN "Ub" ELSE IF a = 8202 THEN "Uc"
        ELSE IF a = 8204 THEN "Ia" ELSE IF a = 8206 THEN "Ib"
        ELSE IF a = 8208 THEN "Ic" ELSE IF a = 8210 THEN "Pt"
        ELSE IF a = 8212 THEN "Pa" ELSE IF a = 8214 THEN "Pb"
        ELSE IF a = 8216 THEN "Pc" ELSE IF a = 8218 THEN "Qt"
        ELSE IF a = 8220 THEN "Qa" ELSE IF a = 8222 THEN "Qb"
        ELSE IF a = 8224 THEN "Qc" ELSE IF a = 8234 THEN "PFt"
        ELSE IF a = 8236 THEN "PFa" ELSE IF a = 8238 THEN "PFb"
        ELSE IF a = 8240 THEN "PFc" ELSE "Freq"]

\* LABELS: the labels in the order of the register numbers
LABELS ==
    <<"Uab", "Ubc", "Uca", "Ua", "Ub", "Uc", "Ia", "Ib", "Ic",
      "Pt", "Pa", "Pb", "Pc", "Qt", "Qa", "Qb", "Qc",
      "PFt", "PFa", "PFb", "PFc", "Freq">>

\* the key f"Register{register_addr:04X}": the hexadecimal digits of the
\* address, at least four of them (an address is below 16^5 here); a label
\* of LABELS is the key <<label>>
generic_name_by_four(register_addr) == <<"Register", (register_addr \div 4096) % 16, (register_addr \div 256) % 16, (register_addr \div 16) % 16, (register_addr % 16) - (register_addr % 4)>>

generic_name(register_addr) ==
    IF register_addr < 65536
    THEN <<"Register", (register_addr \div 4096) % 16,
           (register_addr \div 256) % 16, (register_addr \div 16) % 16,
           register_addr % 16>>
    ELSE <<"Register", register_addr \div 65536,
           (register_addr \div 4096) % 16, (register_addr \div 256) % 16,
           (register_addr \div 16) % 16, register_addr % 16>>

\* a variant that counts the labels from the head of LABELS
label_keys_from_head(n, start_register) ==
    [i \in 1..n |->
        IF start_register \in DOMAIN REGISTER_MAP
        THEN <<LABELS[i]>>
        ELSE generic_name(start_register + (i - 1) * 2)]

\* the keys map_values_to_labels gives to n values, in the order of the
\* values
label_keys(n, start_register) ==
    IF start_register \in DOMAIN REGISTER_MAP
    THEN LET start_label == REGISTER_MAP[start_register]
             start_index == (CHOOSE k \in 1..Len(LABELS) :
                                 LABELS[k] = start_label) - 1
         IN  [i \in 1..n |->
                 IF start_index + (i - 1) < Len(LABELS)
                 THEN <<LABELS[start_index + (i - 1) + 1]>>
                 ELSE generic_name(start_register + (i - 1) * 2)]
    ELSE [i \in 1..n |-> generic_name(start_register + (i - 1) * 2)]

\* map_values_to_labels(values, start_register).  The dict is held by its
\* keys and the values handed in (before round(value * scaling_factor, 3)),
\* in the order of the values, and the start register; made is the
\* main-loop pass in which it was built.
map_values_to_labels(values, start_register) ==
    LET labels == label_keys(Len(values), start_register)
    IN  [kind |-> "dict", values |-> values,
         start_register |-> start_register, labels |-> labels,
         items |-> [i \in 1..Len(values) |->
                       IF Len(labels[i]) = 1
                       THEN scaled(milli(values[i]),
                                   SCALING_FACTORS[labels[i][1]])
                       ELSE milli(values[i])],
         checked |-> FALSE, made |-> v1_cycle]

\* plausibility_ranges.get(key, (-inf, inf)) in thousandths; every label of
\* LABELS has a range
plausibility_ranges(key) ==
    IF key \in {"Uab", "Ubc", "Uca", "Ua", "Ub", "Uc"} THEN <<0, 500000>>
    ELSE IF key \in {"Ia", "Ib", "Ic"} THEN <<0, 100000>>
    ELSE IF key \in {"Pt", "Pa", "Pb", "Pc", "Qt", "Qa", "Qb", "Qc"}
    THEN <<-50000000, 50000000>>
    ELSE IF key \in {"PFt", "PFa", "PFb", "PFc"} THEN <<-1000, 1000>>
    ELSE <<45000, 65000>>

\* a variant whose ranges leave out their bounds
plausible_item_open(key, value) ==
    \/ key[1] = "Register"
    \/ /\ plausibility_ranges(key[1])[1] < value
       /\ value < plausibility_ranges(key[1])[2]

\* apply_plausibility_check: the item (key, value) is kept: key.startswith(
\* "Register") or min_val <= value <= max_val
plausible_item(key, value) ==
    \/ key[1] = "Register"
    \/ /\ plausibility_ranges(key[1])[1] <= value
       /\ value <= plausibility_ranges(key[1])[2]

\* apply_plausibility_check(values_dict): same keys, a value out of its
\* range replaced by 0.0
apply_plausibility_check(values_dict) ==
    [values_dict EXCEPT
        !.items = [i \in 1..Len(values_dict.items) |->
                      IF plausible_item(values_dict.labels[i],
                                        values_dict.items[i])
                      THEN values_dict.items[i]
                      ELSE 0],
        !.checked = TRUE]

\* the "Unplausible: ..." lines apply_plausibility_check prints: the keys
\* in the order of the items
plausibility_prints(values_dict) ==
    SelectSeq([i \in 1..Len(values_dict.items) |->
                  IF plausible_item(values_dict.labels[i],
                                    values_dict.items[i])
                  THEN <<>>
                  ELSE values_dict.labels[i]],
              LAMBDA key : key # <<>>)

\* last_request.get('startreg', 0x2000) behind "if last_request"
startreg_of(lr) == IF Truthy(lr) THEN lr.startreg ELSE 8192

\* a variant that hands the exception code on as a value
error_response_decoded(buf, position) ==
    [success |-> TRUE, resp_length |-> 5,
     mapped_values |-> apply_plausibility_check(
                           map_values_to_labels(<<<<At(buf, position + 2)>>>>,
                                                8192))]

\* "if func_code & 0x80: ... return True, 5, None"
error_response(buf, position) ==
    [success |-> TRUE, resp_length |-> 5, mapped_values |-> PyNone]

\* a variant that has no upper limit
unplausible_byte_count_zero_only(byte_count) == byte_count = 0

\* extract_and_process_response: "if byte_count == 0 or byte_count > 250"
unplausible_byte_count(byte_count) == byte_count = 0 \/ byte_count > 250

\* extract_and_process_response(data_buffer, position, function_code,
\* last_request, debug=True): (success, response length, mapped values)
extract_and_process_response(buf, position, function_code, lr) ==
    LET failed == [success |-> FALSE, resp_length |-> 0,
                   mapped_values |-> PyNone]
    IN  IF position + 3 >= Len(buf) THEN failed
        ELSE LET address    == At(buf, position)
                 func_code  == At(buf, position + 1)
                 byte_count == At(buf, position + 2)
                 response_length == 3 + byte_count + 2
             IN  IF address = 159 THEN failed
                 ELSE IF /\ func_code # function_code
                         /\ func_code # function_code + 128
                 THEN failed
                 ELSE IF func_code >= 128
                 THEN error_response(buf, position)
                 ELSE IF unplausible_byte_count(byte_count) THEN failed
                 ELSE IF position + response_length > Len(buf) THEN failed
                 ELSE
                 LET response_data ==
                         Slice(buf, position, position + response_length)
                     payload == Slice(response_data, 3, 3 + byte_count)
                     force_format == IF byte_count % 4 = 0 THEN "float32"
                                     ELSE "auto"
                     values == process_modbus_payload(payload, force_format)
                     int_values ==
                         [i \in 1..(Len(payload) \div 2) |->
                             <<payload[2 * i - 1] * 256 + payload[2 * i]>>]
                 IN  IF values = <<>>
                     THEN IF byte_count % 2 = 0 /\ int_values # <<>>
                          THEN [success |-> TRUE,
                                resp_length |-> response_length,
                                mapped_values |->
                                    apply_plausibility_check(
                                        map_values_to_labels(
                                            int_values, startreg_of(lr)))]
                          ELSE [success |-> TRUE,
                                resp_length |-> response_length,
                                mapped_values |-> PyNone]
                     ELSE [success |-> TRUE,
                           resp_length |-> response_length,
                           mapped_values |->
                               apply_plausibility_check(
                                   map_values_to_labels(
                                       values, startreg_of(lr)))]

\* process_request_response_pair(request_data, response_data, debug=True):
\* result['mapped_values'], or None
process_request_response_pair(request_data, response_data) ==
    IF Len(request_data) < 8 \/ Len(response_data) < 5 THEN PyNone
    ELSE IF ~is_master_marker(request_data, 0) THEN PyNone
    ELSE IF ~plausible_request(request_data, 0) THEN PyNone
    ELSE IF At(response_data, 0) = 159
            \/ At(response_data, 1) \notin {3, 4}
    THEN PyNone
    ELSE LET startreg == be16(request_data, 2)
             regcount == be16(request_data, 4)
             byte_count == At(response_data, 2)
             expected_byte_count == regcount * 4
             payload == Slice(response_data, 3, 3 + byte_count)
             values == process_modbus_payload(payload, "auto")
         IN  IF /\ byte_count # expected_byte_count
                /\ Abs(byte_count - expected_byte_count) > 8
             THEN PyNone
             ELSE IF values = <<>> THEN PyNone
             ELSE apply_plausibility_check(
                      map_values_to_labels(values, startreg))

\* ---- extract_first_valid_modbus_frame.  A found frame is returned with
\* the offset it was found at, which the code does not return.
NoFrame == [address |-> -1, function_code |-> -1, payload |-> <<>>,
            offset |-> -1]

request_at(data, i) ==
    [address |-> At(data, i), function_code |-> At(data, i + 1),
     payload |-> Slice(data, i + 2, i + 6), offset |-> i]

\* a variant that takes every 9F03/9F04 for a request
priority1_any_register(data) ==
    {i \in 0..(Len(data) - 9) : is_master_marker(data, i)}

\* Priority 1: the first plausible master request
priority1(data) ==
    {i \in 0..(Len(data) - 9) :
        is_master_marker(data, i) /\ plausible_request(data, i)}

\* Priority 2: the first slave response with a byte count that is a
\* multiple of 4 and fits
priority2(data) ==
    {i \in 0..(Len(data) - 6) :
        /\ At(data, i) # 159
        /\ At(data, i + 1) \in {3, 4}
        /\ i + 3 < Len(data)
        /\ At(data, i + 2) % 4 = 0
        /\ 4 <= At(data, i + 2)
        /\ At(data, i + 2) <= 256
        /\ i + 3 + At(data, i + 2) + 2 <= Len(data)}

\* Priority 3: a request directly followed by its response
priority3(data) ==
    {i \in 0..(Len(data) - 11) :
        /\ is_master_marker(data, i)
        /\ plausible_request(data, i)
        /\ i + 8 + 3 + be16(data, i + 4) * 4 + 2 <= Len(data)
        /\ At(data, i + 8) # 159
        /\ At(data, i + 9) \in {3, 4}
        /\ At(data, i + 10) = be16(data, i + 4) * 4}

\* Priority 4: a plausible request whose next 9F03/9F04 block starts at
\* least 8 bytes after the request ends
priority4(data) ==
    {i \in 0..(Len(data) - 9) :
        /\ is_master_marker(data, i)
        /\ LET blocks == {nb \in (i + 8)..(Len(data) - 9) :
                              is_master_marker(data, nb)}
           IN  /\ blocks # {}
               /\ MinOf(blocks) - (i + 8) >= 8
               /\ plausible_request(data, i)}

\* Last resort: a block of expected_length bytes, 8 bytes after a 9F03/9F04,
\* whose first 10 floats hold at least 5 valid ones; i moves in steps of 4
last_resort(data, expected_length) ==
    {i \in 0..(Len(data) - expected_length) :
        /\ i % 4 = 0
        /\ i >= 8
        /\ is_master_marker(data, i - 8)
        /\ Cardinality({j \in 0..((Min2(expected_length, 40) - 1) \div 4) :
               /\ 4 * j + 4 <= Len(data) - i
               /\ float_valid(float_inverse(
                      SubSeq(data, i + 4 * j + 1, i + 4 * j + 4)))}) >= 5}

extract_first_valid_modbus_frame(hex_string) ==
    LET data == fromhex(hex_string)
        response_at(i) ==
            [address |-> At(data, i), function_code |-> At(data, i + 1),
             payload |-> Slice(data, i + 3, i + 3 + At(data, i + 2)),
             offset |-> i]
    IN  IF priority1(data) # {}
        THEN request_at(data, MinOf(priority1(data)))
        ELSE IF priority2(data) # {}
        THEN response_at(MinOf(priority2(data)))
        ELSE IF priority3(data) # {}
        THEN request_at(data, MinOf(priority3(data)))
        ELSE IF priority4(data) # {}
        THEN request_at(data, MinOf(priority4(data)))
        ELSE IF last_resort(data, 88) # {}
        THEN request_at(data, MinOf(last_resort(data, 88)) - 8)
        ELSE IF last_resort(data, 176) # {}
        THEN request_at(data, MinOf(last_resort(data, 176)) - 8)
        ELSE NoFrame

(***************************************************************************)
(* modbusSniffer.py: the main loop.  One pass of "while True" is walked in *)
(* steps; S is the record of what a step reads and writes:                 *)
(*   buf data_buffer, lr last_request, mv mapped_values,                   *)
(*   fp frames_processed, pubs what send_mqtt published in this pass,      *)
(*   ev the frames processed in this pass, exc an exception left the step, *)
(*   brk the for loop was left by break.                                   *)
(***************************************************************************)
\* del data_buffer[:n]
del_front(buf, n) == Slice(buf, n, Len(buf))

\* a variant that keeps the oldest bytes: data_buffer[:MAX_BUFFER_SIZE]
cap_buffer_head(buf) ==
    IF Len(buf) > MAX_BUFFER_SIZE THEN Slice(buf, 0, MAX_BUFFER_SIZE)
    ELSE buf

\* "if len(data_buffer) > MAX_BUFFER_SIZE:
\*      data_buffer = data_buffer[-MAX_BUFFER_SIZE:]"
cap_buffer(buf) ==
    IF Len(buf) > MAX_BUFFER_SIZE
    THEN Slice(buf, Len(buf) - MAX_BUFFER_SIZE, Len(buf))
    ELSE buf

\* The loop that deletes 00 00 00: from offset i it moves to the next
\* triple of zero bytes, deletes it and goes on at the same offset.
RECURSIVE strip_zero_triples(_, _)
strip_zero_triples(buf, i) ==
    LET triples == {k \in i..(Len(buf) - 3) :
                       At(buf, k) = 0 /\ At(buf, k + 1) = 0
                           /\ At(buf, k + 2) = 0}
    IN  IF triples = {} THEN buf
        ELSE strip_zero_triples(
                 Slice(buf, 0, MinOf(triples))
                     \o Slice(buf, MinOf(triples) + 3, Len(buf)),
                 MinOf(triples))

\* requests_found of the request/response scan
scan_requests(buf) ==
    LET found == SortedSeq({i \in 0..(Len(buf) - 9) :
                     is_master_marker(buf, i) /\ plausible_request(buf, i)})
    IN  [k \in 1..Len(found) |->
            [position |-> found[k],
             data |-> Slice(buf, found[k], found[k] + 8),
             startreg |-> be16(buf, found[k] + 2),
             regcount |-> be16(buf, found[k] + 4),
             function_code |-> At(buf, found[k] + 1)]]

\* responses_found of the request/response scan
scan_responses(buf) ==
    LET found == SortedSeq({i \in 0..(Len(buf) - 9) :
                     /\ At(buf, i) # 159
                     /\ At(buf, i + 1) \in {3, 4, 131, 132}
                     /\ i + 2 < Len(buf)
                     /\ \/ At(buf, i + 1) >= 128 /\ i + 5 <= Len(buf)
                        \/ /\ At(buf, i + 1) < 128
                           /\ At(buf, i + 2) % 2 = 0
                           /\ At(buf, i + 2) > 0
                           /\ At(buf, i + 2) <= 250
                           /\ i + 3 + At(buf, i + 2) + 2 <= Len(buf)})
    IN  [k \in 1..Len(found) |->
            [position |-> found[k],
             function_code |-> At(buf, found[k] + 1) % 128,
             is_error |-> At(buf, found[k] + 1) >= 128]]

\* send_mqtt(mapped_values); the broker is reachable or not for a whole
\* pass, and connect() raises when it is not
send_mqtt(S, site) ==
    IF ~v1_mqtt_up THEN [S EXCEPT !.exc = TRUE]
    ELSE [S EXCEPT !.pubs = Append(@, [values |-> S.mv, cycle |-> v1_cycle,
                                       site |-> site])]

\* Frames were processed: frames are those decoded and published or
\* recorded as the pending request, offset is where the first processed
\* frame starts, end where the last one ends, removed the bytes deleted
\* from the front of the buffer.
processed(S, site, frames, offset, end, removed) ==
    [S EXCEPT !.ev = Append(@, [site |-> site, frames |-> frames,
                                offset |-> offset, end |-> end,
                                removed |-> removed])]

\* last_request = {'address': 0x9F, 'function_code': ..., ...}
request_dict(address, function_code, startreg, regcount) ==
    [kind |-> "dict", address |-> address, function_code |-> function_code,
     startreg |-> startreg, regcount |-> regcount]

\* A frame was met at a place of the pass.  S0 is the state before, S the
\* state after; request is the request taken out of the buffer (PyNone when
\* none was), response is "none", "data" or "error", pending is the
\* last_request the response was decoded with (PyNone when it was decoded
\* with none or there is no response).
noted(S0, S, site, request, response, pending) ==
    [S EXCEPT !.log = Append(@, [site |-> site, request |-> request,
                                 response |-> response, pending |-> pending,
                                 lr_before |-> S0.lr, lr_after |-> S.lr,
                                 published |-> Len(S.pubs) > Len(S0.pubs),
                                 frames |-> IF Len(S.ev) > Len(S0.ev)
                                            THEN S.ev[Len(S.ev)].frames
                                            ELSE <<>>,
                                 mv |-> S.mv])]

\* the response directly after the request (lines "Prüfe direkt nach dem
\* Request" to "break")
direct_response(S, req, resp_start, expected_data_length, expected_resp_length) ==
    LET buf == S.buf
        byte_count == At(buf, resp_start + 2)
        expected_response_length == 3 + byte_count + 2
        force_format == IF byte_count = expected_data_length THEN "float32"
                        ELSE IF byte_count = expected_data_length \div 2
                        THEN "int16"
                        ELSE "auto"
        response_data ==
            Slice(buf, resp_start, resp_start + expected_response_length)
        payload == Slice(response_data, 3, 3 + byte_count)
        values == process_modbus_payload(payload, force_format)
        mapped == [S EXCEPT !.mv = map_values_to_labels(values, req.startreg)]
        request == request_dict(159, req.function_code, req.startreg,
                                req.regcount)
    IN  IF At(buf, resp_start + 1) >= 128
        THEN noted(S, [S EXCEPT !.buf = del_front(buf, resp_start + 5),
                                !.fp = @ + 1, !.brk = TRUE],
                   "pair", request, "error", PyNone)
        ELSE IF /\ force_format = "auto"
                /\ (byte_count = 0 \/ byte_count > 250
                        \/ byte_count % 2 # 0)
        THEN S
        ELSE IF ~(resp_start + expected_response_length <= Len(buf))
        THEN S
        ELSE IF values # <<>>
        THEN IF send_mqtt(mapped, "pair").exc
             \* the inner except passes, then send_mqtt(mapped_values)
             \* after it raises again
             THEN send_mqtt(mapped, "pair")
             ELSE noted(S,
                     [processed(send_mqtt(mapped, "pair"), "pair",
                                <<response_data>>, req.position,
                                resp_start + expected_response_length,
                                resp_start + expected_response_length)
                        EXCEPT !.fp = @ + 1,
                               !.buf = del_front(
                                   buf,
                                   resp_start + expected_response_length),
                               !.brk = TRUE],
                     "pair", request, "data", PyNone)
        ELSE IF S.mv.kind = "unbound"
        THEN [S EXCEPT !.exc = TRUE]
        ELSE IF send_mqtt(S, "after_pair").exc
        THEN send_mqtt(S, "after_pair")
        ELSE noted(S,
                [processed(send_mqtt(S, "after_pair"), "after_pair",
                           <<req.data>>, req.position,
                           resp_start + expected_response_length,
                           resp_start + expected_resp_length)
                   EXCEPT !.lr = request,
                          !.fp = @ + 2,
                          !.buf = del_front(
                              buf, resp_start + expected_resp_length),
                          !.brk = TRUE],
                "after_pair", request, "data", PyNone)

\* the extended search for a response ("for search_pos in range(...)")
extended_search(S, req, resp_start, expected_data_length, expected_resp_length) ==
    LET buf == S.buf
        extended_search_end ==
            Min2(resp_start + 100, Len(buf) - expected_resp_length)
        frame_end(sp) == sp + 3 + At(buf, sp + 2) + 2
        result(sp) == process_request_response_pair(
                          req.data, Slice(buf, sp, frame_end(sp)))
        hits == {sp \in resp_start..(extended_search_end - 1) :
                    /\ At(buf, sp) \in 1..63
                    /\ At(buf, sp + 1) = req.function_code
                    /\ At(buf, sp + 2) % 4 = 0
                    /\ At(buf, sp + 2) > 0
                    /\ At(buf, sp + 2) <= 200
                    /\ frame_end(sp) <= Len(buf)
                    /\ ~(/\ At(buf, sp + 2) # expected_data_length
                         /\ Abs(At(buf, sp + 2) - expected_data_length) > 40)
                    /\ Truthy(result(sp))}
    IN  IF hits = {} THEN S
        ELSE LET sp == MinOf(hits)
                 sent == send_mqtt([S EXCEPT !.mv = result(sp)], "extended")
             IN  IF sent.exc THEN sent
                 ELSE noted(S,
                         [processed(sent, "extended",
                                    <<req.data,
                                      Slice(buf, sp, frame_end(sp))>>,
                                    sp, frame_end(sp), frame_end(sp))
                            EXCEPT !.lr = request_dict(
                                              159, req.function_code,
                                              req.startreg, req.regcount),
                                   !.fp = @ + 2,
                                   !.buf = del_front(buf, frame_end(sp))],
                         "extended",
                         request_dict(159, req.function_code, req.startreg,
                                      req.regcount),
                         "data", PyNone)

\* the body of "for req_idx, req in enumerate(requests_found)"
process_request(S, req) ==
    LET buf == S.buf
        resp_start == req.position + 8
        expected_data_length == req.regcount * 4
        expected_resp_length == 3 + expected_data_length + 2
    IN  IF ~(resp_start + expected_resp_length <= Len(buf)) THEN S
        ELSE IF /\ At(buf, resp_start) # 159
                /\ \/ At(buf, resp_start + 1) = req.function_code
                   \/ At(buf, resp_start + 1) = req.function_code + 128
        THEN direct_response(S, req, resp_start, expected_data_length,
                             expected_resp_length)
        ELSE extended_search(S, req, resp_start, expected_data_length,
                             expected_resp_length)

RECURSIVE requests_loop(_, _, _)
requests_loop(S, reqs, k) ==
    IF k > Len(reqs) \/ S.brk \/ S.exc THEN S
    ELSE requests_loop(process_request(S, reqs[k]), reqs, k + 1)

\* "for resp_idx, resp in enumerate(responses_found)" of the stand-alone
\* response processing
RECURSIVE responses_loop(_, _, _)
responses_loop(S, resps, k) ==
    IF k > Len(resps) \/ S.brk \/ S.exc THEN S
    ELSE LET resp == resps[k]
             r == extract_and_process_response(S.buf, resp.position,
                                               resp.function_code, S.lr)
             got == [S EXCEPT !.mv = r.mapped_values]
             sent == send_mqtt(got, "single")
             end == resp.position + r.resp_length
             met == IF At(S.buf, resp.position + 1) >= 128 THEN "error"
                    ELSE "data"
             step == IF ~(r.success /\ Truthy(r.mapped_values))
                     THEN IF r.success /\ met = "error"
                          THEN noted(S, got, "single", PyNone, met, PyNone)
                          ELSE got
                     ELSE IF sent.exc THEN sent
                     ELSE IF end <= Len(S.buf)
                     THEN noted(S,
                              [processed(sent, "single",
                                         <<Slice(S.buf, resp.position,
                                                 end)>>,
                                         resp.position, end, end)
                                 EXCEPT !.fp = @ + 1,
                                        !.buf = del_front(S.buf, end),
                                        !.brk = TRUE],
                              "single", PyNone, met, S.lr)
                     ELSE noted(S, [sent EXCEPT !.fp = @ + 1],
                                "single", PyNone, met, S.lr)
         IN  responses_loop(step, resps, k + 1)

\* the fallback: extract_first_valid_modbus_frame on the buffer as hex
fallback_frame(S) ==
    LET buf == S.buf
        hex_data == hex(buf)
        frame == extract_first_valid_modbus_frame(hex_data)
        address == frame.address
        function_code == frame.function_code
        payload == frame.payload
        found == [S EXCEPT !.fp = @ + 1]
        frame_len == 1 + 1 + 1 + Len(payload) + 2
        values == process_modbus_payload(payload, "auto")
        mapped == [found EXCEPT !.mv = apply_plausibility_check(
                       map_values_to_labels(values, startreg_of(S.lr)))]
        decoded == IF values # <<>> /\ Truthy(S.lr)
                   THEN send_mqtt(mapped, "fallback")
                   ELSE found
    IN  IF frame = NoFrame THEN S
        ELSE IF address = 159 /\ function_code \in {3, 4} /\ Len(payload) = 4
        THEN LET removed == IF Len(buf) >= 8 THEN 8 ELSE 0
             IN  noted(S,
                     [processed(found, "fallback_request",
                                <<Slice(buf, frame.offset,
                                        frame.offset + 8)>>,
                                frame.offset, frame.offset + 8, removed)
                        EXCEPT !.lr = request_dict(address, function_code,
                                                   be16(payload, 0),
                                                   be16(payload, 2)),
                               !.buf = del_front(buf, removed)],
                     "fallback",
                     request_dict(address, function_code, be16(payload, 0),
                                  be16(payload, 2)),
                     "none", PyNone)
        ELSE IF address # 159 /\ function_code \in {3, 4}
                /\ Len(payload) >= 4
        THEN IF decoded.exc THEN decoded
             ELSE LET removed == IF Len(buf) >= frame_len THEN frame_len
                                 ELSE 0
                  IN  noted(S,
                          [processed(decoded, "fallback_response",
                                     IF values # <<>> /\ Truthy(S.lr)
                                     THEN <<Slice(buf, frame.offset,
                                                  frame.offset + frame_len)>>
                                     ELSE <<>>,
                                     frame.offset, frame.offset + frame_len,
                                     removed)
                             EXCEPT !.buf = del_front(buf, removed)],
                          "fallback", PyNone, "data", S.lr)
        ELSE [found EXCEPT !.buf = del_front(buf, 1)]

\* one pass of "while i < len(data_buffer) - 5" of the direct search, the
\* loop condition being true
direct_search_pass(S, i) ==
    LET buf == S.buf
        r == extract_and_process_response(buf, i, At(buf, i + 1), S.lr)
        got == [S EXCEPT !.mv = r.mapped_values]
        sent == send_mqtt(got, "direct")
        removed == IF i + r.resp_length <= Len(buf) THEN i + r.resp_length
                   ELSE i
    IN  IF ~(At(buf, i) # 159 /\ At(buf, i + 1) \in {3, 4}) THEN S
        ELSE IF ~(r.success /\ Truthy(r.mapped_values)) THEN got
        ELSE IF sent.exc THEN sent
        ELSE noted(S,
                [processed(sent, "direct",
                           <<Slice(buf, i, i + r.resp_length)>>,
                           i, i + r.resp_length, removed)
                   EXCEPT !.fp = @ + 1,
                          !.buf = del_front(buf, removed),
                          !.brk = TRUE],
                "direct", PyNone, "data", S.lr)

\* a variant that shortens only a buffer above MAX_BUFFER_SIZE
halve_buffer_above_size(S) ==
    IF S.fp = 0 /\ Len(S.buf) > MAX_BUFFER_SIZE
    THEN [S EXCEPT !.buf = del_front(S.buf, Len(S.buf) \div 2)]
    ELSE S

\* "if frames_processed == 0 and len(data_buffer) > MAX_BUFFER_SIZE / 2"
halve_buffer(S) ==
    IF S.fp = 0 /\ 2 * Len(S.buf) > MAX_BUFFER_SIZE
    THEN [S EXCEPT !.buf = del_front(S.buf, Len(S.buf) \div 2)]
    ELSE S

F_HALF_MILLI == <<14851, 4719>>   \* 0x3A03126F, the least single that
                                  \* round(value, 3) does not take to 0

\* the search for unknown formats: the only block without a protocol marker
\* is the one that runs to the end of the buffer
alternative_formats(S) ==
    LET buf == S.buf
        markers == {m \in 0..(Len(buf) - 2) : is_master_marker(buf, m)}
        block_start == IF markers = {} THEN 0
                       ELSE -MinOf({-m : m \in markers}) + 1
        continuous_bytes == Len(buf) - 1 - block_start
        block == Slice(buf, block_start, block_start + continuous_bytes)
        values == process_modbus_payload(block, "float32")
    IN  IF /\ block_start < Len(buf) - 10
           /\ continuous_bytes >= 32
           /\ continuous_bytes % 4 = 0
           /\ \E k \in 1..Len(values) :
                  ~WordLess(magnitude(values[k]), F_HALF_MILLI)
        THEN [S EXCEPT !.mv = apply_plausibility_check(
                                  map_values_to_labels(values, 8192))]
        ELSE S

\* ---- the special search by slave id 1..9
\* "if data_buffer[i] == slave_id" with a function code 03/04/83/84 after it
special_candidates(buf, slave_id) ==
    {i \in 0..(Len(buf) - 6) :
        /\ At(buf, i) = slave_id
        /\ At(buf, i + 1) \in {3, 4, 131, 132}}

\* extract_and_process_response(data_buffer, i, data_buffer[i+1] & 0x7F,
\* last_req, debug=True)
special_call(buf, i, last_req) ==
    extract_and_process_response(buf, i, At(buf, i + 1) % 128, last_req)

\* the offsets of slave_id at which the call succeeds
special_hits(buf, slave_id, last_req) ==
    {i \in special_candidates(buf, slave_id) :
        special_call(buf, i, last_req).success}

\* "if success:" at offset i, r being what the call returned
special_success(S, i, r, sent, removed) ==
    IF sent.exc THEN sent
    ELSE noted(S,
            [processed(sent, "special",
                       IF Truthy(r.mapped_values)
                       THEN <<Slice(S.buf, i, i + r.resp_length)>>
                       ELSE <<>>,
                       i, i + r.resp_length, removed)
               EXCEPT !.fp = @ + 1,
                      !.buf = del_front(S.buf, removed)],
            "special", PyNone,
            IF At(S.buf, i + 1) >= 128 THEN "error" ELSE "data", PyNone)

\* the publish and the number of bytes to delete for the response at i
special_response(S, i, r) ==
    special_success(S, i, r,
                    IF Truthy(r.mapped_values)
                    THEN send_mqtt([S EXCEPT !.mv = r.mapped_values],
                                   "special")
                    ELSE [S EXCEPT !.mv = r.mapped_values],
                    IF i + r.resp_length <= Len(S.buf)
                    THEN i + r.resp_length ELSE i)

\* the loops over slave_id and i, ids being the slave ids with a hit; when
\* there is none, every call has left mapped_values None
special_loops(S, last_req, ids, first) ==
    IF ids = {}
    THEN alternative_formats(
             IF \E id \in 1..9 : special_candidates(S.buf, id) # {}
             THEN [S EXCEPT !.mv = PyNone] ELSE S)
    ELSE special_response(S, first, special_call(S.buf, first, last_req))

\* the first hit of the least slave id with a hit
special_first(buf, last_req, ids) ==
    IF ids = {} THEN 0 ELSE MinOf(special_hits(buf, MinOf(ids), last_req))

\* last_req = requests_found[-1]
special_last_req(reqs) ==
    request_dict(159, reqs[Len(reqs)].function_code,
                 reqs[Len(reqs)].startreg, reqs[Len(reqs)].regcount)

special_ids(S, last_req, ids) ==
    special_loops(S, last_req, ids, special_first(S.buf, last_req, ids))

\* the special search, then alternative_formats
special_search(S, reqs) ==
    special_ids(S, special_last_req(reqs),
                {id \in 1..9 :
                    special_hits(S.buf, id, special_last_req(reqs)) # {}})

\* the end of a pass: halving, then the special search when many requests
\* and no response were found
tail_of_pass(S, reqs, resps) ==
    IF halve_buffer(S).fp = 0 /\ Len(reqs) > 2 /\ Len(resps) = 0
    THEN special_search(halve_buffer(S), reqs)
    ELSE halve_buffer(S)

\* ---- the lines read_from_serial may return
V1Req        == WithCrc(<<159, 3, 32, 6, 0, 1>>)       \* 1 register at 0x2006
V1Resp       == WithCrc(<<1, 3, 4, 76, 205, 67, 102>>) \* 230.3 as CDAB float
V1RespMarker == WithCrc(<<1, 3, 4, 159, 3, 0, 0>>)     \* payload is a marker
V1RespZero   == WithCrc(<<1, 3, 4, 0, 0, 0, 0>>)       \* 0.0

LinePair         == V1Req \o V1Resp
LinePairMarker   == V1Req \o V1RespMarker
LineNoisyRequest == <<170, 170>> \o V1Req \o <<187>>
LineNoise        == <<170, 171, 172, 173, 174, 175>>
LineShort        == <<170, 171, 172>>
LineBadCrc       == <<159, 3, 32, 6, 0, 1, 17, 34,
                      1, 3, 4, 76, 205, 67, 102, 17, 34>>
LineResponse     == V1Resp
LineZero         == V1RespZero
\* an error response (exception code 2) and four more bytes, alone and
\* after a request
LineError        == WithCrc(<<1, 131, 2>>) \o <<170, 171, 172, 173>>
LinePairError    == V1Req \o LineError

Pattern(n) == [k \in 1..n |-> 16 + (k % 16)]
LineBig          == Pattern(MAX_BUFFER_SIZE)
LineBigResponse  == V1Resp \o Pattern(MAX_BUFFER_SIZE - Len(V1Resp))

\* a request for two registers, a response of four bytes, four more bytes
LinePairHalf == WithCrc(<<159, 3, 32, 6, 0, 2>>) \o V1Resp \o <<170, 171, 172, 173>>

\* a request for one register and its response: the single 9000.0
LinePairHigh == V1Req \o WithCrc(<<1, 3, 4, 160, 0, 70, 12>>)

\* responses with the byte counts 2, 0 and 254
LineCount2 == WithCrc(<<1, 3, 2, 0, 5>>)
LineCount0 == WithCrc(<<1, 3, 0>>) \o <<170, 171, 172, 173>>
LineCount254 == WithCrc(<<1, 3, 254>> \o [k \in 1..254 |-> <<76, 205, 67, 102>>[1 + ((k - 1) % 4)]])

\* a request and nothing after it
LineRequest == V1Req

\* 9F 03 with start register 0x1000, no valid CRC, and a block of 22 floats
LineFloatBlock == <<159, 3, 16, 0, 0, 1, 17, 34>> \o [k \in 1..88 |-> <<76, 205, 67, 102>>[1 + ((k - 1) % 4)]]

V1Lines == {LinePair, LinePairMarker, LineNoisyRequest, LineNoise, LineRequest,
            LineFloatBlock,
            LineShort, LineBadCrc, LineResponse, LineZero, LineError,
            LinePairError, LinePairHalf, LinePairHigh, LineCount2,
            LineCount0, LineCount254}
\* a response of 63 floats: byte count 252
LineLongResponse ==
    WithCrc(<<1, 3, 252>>
            \o [k \in 1..252 |-> <<76, 205, 67, 102>>[1 + ((k - 1) % 4)]])

\* an error response at the head of a full buffer
LineBigError == WithCrc(<<1, 131, 2>>) \o Pattern(MAX_BUFFER_SIZE - 5)

V1BigLines == {LineShort, LineBig, LineBigResponse, LineLongResponse,
               LineBigError}

MaxV1Cycle == 3
MaxV1BigCycle == 3
MaxSpin == 8

InitV1 ==
    /\ data_buffer = <<>>
    /\ last_request = PyNone
    /\ mapped_values = Unbound
    /\ frames_processed = 0
    /\ requests_found = <<>>
    /\ responses_found = <<>>
    /\ v1_i = 0
    /\ v1_pc = "read"
    /\ v1_cycle = 0
    /\ v1_spin = 0
    /\ v1_mqtt_up = TRUE
    /\ v1_old = <<>>
    /\ v1_new = <<>>
    /\ v1_published = <<>>
    /\ v1_events = <<>>
    /\ v1_log = <<>>

\* what a step of the pass starts from
main_state ==
    [buf |-> data_buffer, lr |-> last_request, mv |-> mapped_values,
     fp |-> frames_processed, pubs |-> v1_published, ev |-> v1_events,
     log |-> v1_log,
     exc |-> FALSE, brk |-> FALSE]

\* what a step leaves; "except Exception" of the main loop sleeps and
\* starts the next pass
leave_step(S, next) ==
    /\ data_buffer' = S.buf
    /\ last_request' = S.lr
    /\ mapped_values' = S.mv
    /\ frames_processed' = S.fp
    /\ v1_published' = S.pubs
    /\ v1_events' = S.ev
    /\ v1_log' = S.log
    /\ v1_pc' = IF S.exc THEN "read" ELSE next

\* read_from_serial returned a line: it is appended and the buffer capped
V1ReadLine(lines, maxCycle) ==
    /\ v1_pc = "read"
    /\ v1_cycle < maxCycle
    /\ \E line \in lines, up \in BOOLEAN :
           LET serial_data == hex(line)
               data_bytes  == fromhex(serial_data)
           IN  /\ serial_data # <<>>
               /\ data_buffer' = cap_buffer(data_buffer \o data_bytes)
               /\ v1_old' = data_buffer
               /\ v1_new' = data_bytes
               /\ v1_mqtt_up' = up
    /\ v1_pc' = "prep"
    /\ v1_cycle' = v1_cycle + 1
    /\ v1_published' = <<>>
    /\ v1_events' = <<>>
    /\ v1_log' = <<>>
    /\ UNCHANGED <<last_request, mapped_values, frames_processed,
                   requests_found, responses_found, v1_i, v1_spin>>

\* read_from_serial returned "": sleep and read again
V1ReadNothing(maxCycle) ==
    /\ v1_pc = "read"
    /\ v1_cycle < maxCycle
    /\ v1_cycle' = v1_cycle + 1
    /\ UNCHANGED <<data_buffer, last_request, mapped_values,
                   frames_processed, requests_found, responses_found, v1_i,
                   v1_pc, v1_spin, v1_mqtt_up, v1_old, v1_new, v1_published,
                   v1_events, v1_log>>

\* statistics reset, 00 00 00 removal, request/response scan
V1Prepare ==
    /\ v1_pc = "prep"
    /\ frames_processed' = 0
    /\ data_buffer' = strip_zero_triples(data_buffer, 0)
    /\ requests_found' = scan_requests(data_buffer')
    /\ responses_found' = scan_responses(data_buffer')
    /\ v1_old' = <<>>
    /\ v1_new' = <<>>
    /\ v1_pc' = "pairs"
    /\ UNCHANGED <<last_request, mapped_values, v1_i, v1_cycle, v1_spin,
                   v1_mqtt_up, v1_published, v1_events, v1_log>>

\* the loop over requests_found
V1Pairs ==
    /\ v1_pc = "pairs"
    /\ leave_step(requests_loop(main_state, requests_found, 1), "single")
    /\ UNCHANGED <<requests_found, responses_found, v1_i, v1_cycle, v1_spin,
                   v1_mqtt_up, v1_old, v1_new>>

\* the stand-alone responses, when no pair was processed
V1Single ==
    /\ v1_pc = "single"
    /\ leave_step(IF frames_processed = 0
                  THEN responses_loop(main_state, responses_found, 1)
                  ELSE main_state, "fallback")
    /\ UNCHANGED <<requests_found, responses_found, v1_i, v1_cycle, v1_spin,
                   v1_mqtt_up, v1_old, v1_new>>

\* the first valid frame, when still nothing was processed
V1Fallback ==
    /\ v1_pc = "fallback"
    /\ leave_step(IF frames_processed = 0 THEN fallback_frame(main_state)
                  ELSE main_state, "direct_if")
    /\ UNCHANGED <<requests_found, responses_found, v1_i, v1_cycle, v1_spin,
                   v1_mqtt_up, v1_old, v1_new>>

\* "if frames_processed == 0 and len(responses_found) == 0:  i = 0"
V1DirectEnter ==
    /\ v1_pc = "direct_if"
    /\ IF frames_processed = 0 /\ Len(responses_found) = 0
       THEN v1_pc' = "direct" /\ v1_i' = 0 /\ v1_spin' = 0
       ELSE v1_pc' = "tail" /\ UNCHANGED <<v1_i, v1_spin>>
    /\ UNCHANGED <<data_buffer, last_request, mapped_values,
                   frames_processed, requests_found, responses_found,
                   v1_cycle, v1_mqtt_up, v1_old, v1_new, v1_published,
                   v1_events, v1_log>>

\* the loop condition of the direct search and, when it holds, one pass of
\* the body; i is not assigned in the body
V1DirectPass ==
    /\ v1_pc = "direct"
    /\ v1_spin < MaxSpin
    /\ IF v1_i < Len(data_buffer) - 5
       THEN LET S == direct_search_pass(main_state, v1_i)
            IN  /\ leave_step(S, IF S.brk THEN "tail" ELSE "direct")
                /\ v1_spin' = v1_spin + 1
       ELSE /\ v1_pc' = "tail"
            /\ UNCHANGED <<data_buffer, last_request, mapped_values,
                           frames_processed, v1_published, v1_events,
                           v1_log,
                           v1_spin>>
    /\ UNCHANGED <<requests_found, responses_found, v1_i, v1_cycle,
                   v1_mqtt_up, v1_old, v1_new>>

\* halving, special search, statistics, sleep
V1Tail ==
    /\ v1_pc = "tail"
    /\ leave_step(tail_of_pass(main_state, requests_found, responses_found),
                  "read")
    /\ UNCHANGED <<requests_found, responses_found, v1_i, v1_cycle, v1_spin,
                   v1_mqtt_up, v1_old, v1_new>>

(***************************************************************************)
(* SpecCrc: crc16 and is_valid_crc applied to every byte sequence over     *)
(* CrcBytes of length 0..MaxCrcLen                                         *)
(***************************************************************************)
MaxCrcLen == 4
CrcBytes == {1, 2, 3, 131}

CrcInputs == UNION {[1..n -> CrcBytes] : n \in 0..MaxCrcLen}

InitCrc ==
    /\ crc_b \in CrcInputs
    /\ crc_frame = <<>>
    /\ crc_order = "none"
    /\ crc_result = "none"

\* the sender appends crc16(b) low byte first
CrcAppendLittle ==
    /\ crc_order = "none"
    /\ crc_frame' = crc_b \o crc16(crc_b)
    /\ crc_order' = "le"
    /\ UNCHANGED <<crc_b, crc_result, notCrc>>

\* the sender appends the same checksum high byte first
CrcAppendBig ==
    /\ crc_order = "none"
    /\ crc_frame' = crc_b \o <<crc16(crc_b)[2], crc16(crc_b)[1]>>
    /\ crc_order' = "be"
    /\ UNCHANGED <<crc_b, crc_result, notCrc>>

CrcValidate ==
    /\ crc_order # "none"
    /\ crc_result = "none"
    /\ crc_result' = IF is_valid_crc(crc_frame) THEN "true" ELSE "false"
    /\ UNCHANGED <<crc_b, crc_frame, crc_order, notCrc>>

NextCrc == CrcAppendLittle \/ CrcAppendBig \/ CrcValidate

\* no function is called on its own
RestCall ==
    /\ call_args = PyNone
    /\ call_result = PyNone

InitSpecCrc == InitCrc /\ InitV2 /\ InitV1 /\ RestCall

SpecCrc == InitSpecCrc /\ [][NextCrc]_vars

----
\* C3: CRC round trip: is_valid_crc(b + crc16(b)) is true for every byte
\* sequence b, the empty one and those shorter than 4 bytes included.
C3_CrcRoundTrip ==
    (crc_order = "le" /\ crc_result # "none") => crc_result = "true"

\* C4: is_valid_crc accepts a frame of at least MIN_FRAME_SIZE bytes whose
\* checksum is appended low byte first and also the same frame with the two
\* checksum bytes high byte first.
C4_AcceptsBothOrders ==
    (crc_result # "none" /\ Len(crc_frame) >= MIN_FRAME_SIZE)
        => crc_result = "true"

(***************************************************************************)
(* SpecV2: the main loop of modbusSnifferV2.py on short reads.             *)
(* SpecV2Flood: the same loop when a read may return a full 256 bytes.     *)
(***************************************************************************)
\* no CRC experiment is running
RestCrc ==
    /\ crc_b = <<>>
    /\ crc_frame = <<>>
    /\ crc_order = "none"
    /\ crc_result = "none"

V2Read == V2ReadData(V2Reads, MaxV2Iter) /\ UNCHANGED notV2
V2Idle == V2ReadNothing(MaxV2Iter) /\ UNCHANGED notV2
V2Scan == V2ScanStep /\ UNCHANGED notV2
V2Trim == V2ScanEnd /\ UNCHANGED notV2

NextV2 == V2Read \/ V2Idle \/ V2Scan \/ V2Trim

\* both programs after construction, no CRC experiment running
InitSniffers == RestCrc /\ InitV2 /\ InitV1 /\ RestCall

SpecV2 == InitSniffers /\ [][NextV2]_vars

V2FloodRead == V2ReadData(V2FloodReads, MaxV2FloodIter) /\ UNCHANGED notV2
V2FloodIdle == V2ReadNothing(MaxV2FloodIter) /\ UNCHANGED notV2
V2FloodScan == V2ScanStep /\ UNCHANGED notV2
V2FloodTrim == V2ScanEnd /\ UNCHANGED notV2

NextV2Flood == V2FloodRead \/ V2FloodIdle \/ V2FloodScan \/ V2FloodTrim

SpecV2Flood == InitSniffers /\ [][NextV2Flood]_vars

\* the loop of main with reads that never end: ser.read(256) returns after
\* TIMEOUT at the latest, and the step after the frame search is always
\* taken, so both are weakly fair.  Whether a read returns data is the
\* bus's choice.
V2LiveRead == V2LiveReadData /\ UNCHANGED notV2
V2LiveIdle == V2LiveReadNothing /\ UNCHANGED notV2
V2LiveScan == V2ScanStepOn(FALSE) /\ UNCHANGED notV2
V2LiveTrim == V2ScanEnd /\ UNCHANGED notV2

NextV2Live == V2LiveRead \/ V2LiveIdle \/ V2LiveScan \/ V2LiveTrim

SpecV2Live ==
    /\ InitSniffers
    /\ [][NextV2Live]_vars
    /\ WF_vars(V2LiveRead \/ V2LiveIdle)
    /\ WF_vars(V2LiveTrim)

\* the loop of main on reads that each hold one whole frame
V2FrameRead == V2ReadData(V2FrameReads, MaxV2FrameIter) /\ UNCHANGED notV2
V2FrameIdle == V2ReadNothing(MaxV2FrameIter) /\ UNCHANGED notV2
V2FrameScan == V2ScanStep /\ UNCHANGED notV2
V2FrameTrim == V2ScanEnd /\ UNCHANGED notV2

NextV2Frames == V2FrameRead \/ V2FrameIdle \/ V2FrameScan \/ V2FrameTrim

SpecV2Frames == InitSniffers /\ [][NextV2Frames]_vars

(***************************************************************************)
(* SpecV1: the main loop of modbusSniffer.py on short lines.               *)
(* SpecV1Big: the same loop on lines that fill the buffer.                 *)
(***************************************************************************)
V1Read       == V1ReadLine(V1Lines, MaxV1Cycle) /\ UNCHANGED notV1
V1Idle       == V1ReadNothing(MaxV1Cycle) /\ UNCHANGED notV1
V1Prep       == V1Prepare /\ UNCHANGED notV1
V1PairStep   == V1Pairs /\ UNCHANGED notV1
V1SingleStep == V1Single /\ UNCHANGED notV1
V1FallbackStep == V1Fallback /\ UNCHANGED notV1
V1DirectIf   == V1DirectEnter /\ UNCHANGED notV1
V1DirectLoop == V1DirectPass /\ UNCHANGED notV1
V1TailStep   == V1Tail /\ UNCHANGED notV1

NextV1 ==
    \/ V1Read \/ V1Idle \/ V1Prep \/ V1PairStep \/ V1SingleStep
    \/ V1FallbackStep \/ V1DirectIf \/ V1DirectLoop \/ V1TailStep

SpecV1 == InitSniffers /\ [][NextV1]_vars

V1BigRead    == V1ReadLine(V1BigLines, MaxV1BigCycle) /\ UNCHANGED notV1
V1BigIdle    == V1ReadNothing(MaxV1BigCycle) /\ UNCHANGED notV1

NextV1Big ==
    \/ V1BigRead \/ V1BigIdle \/ V1Prep \/ V1PairStep \/ V1SingleStep
    \/ V1FallbackStep \/ V1DirectIf \/ V1DirectLoop \/ V1TailStep

SpecV1Big == InitSniffers /\ [][NextV1Big]_vars

\* the carried-register search finds what is_valid_crc finds size by size
ScanSizesAgree ==
    v2_pc = "scan" =>
        valid_frame_size(buffer, frame_start)
            = valid_frame_size_direct(buffer, frame_start)

----
\* C6: the receive buffer of modbusSnifferV2.py never holds more than
\* 2 * MAX_FRAME_SIZE bytes plus the 256 bytes of one read, also when every
\* read returns data.
C6_BufferBounded ==
    Len(buffer) <= 2 * MAX_FRAME_SIZE + 256

\* suf is buf without its first Len(buf) - Len(suf) bytes
IsSuffix(suf, buf) ==
    /\ Len(suf) <= Len(buf)
    /\ suf = SubSeq(buf, Len(buf) - Len(suf) + 1, Len(buf))

\* C7: the frame-search loop ends within len(buffer) passes, len(buffer)
\* taken when the loop is entered; each pass either advances frame_start by
\* exactly one and leaves the buffer alone, or removes at least
\* MIN_FRAME_SIZE bytes from the front of the buffer and resets frame_start.
C7_SearchProgress ==
    /\ [](v2_pc = "scan" => v2_steps + (Len(buffer) - frame_start) <= v2_len0)
    /\ [][(v2_pc = "scan" /\ v2_pc' = "scan") =>
            \/ /\ frame_start' = frame_start + 1
               /\ buffer' = buffer
            \/ /\ frame_start' = 0
               /\ Len(buffer') + MIN_FRAME_SIZE <= Len(buffer)
               /\ IsSuffix(buffer', buffer)]_vars

\* a search that has removed a frame and then advanced past a byte
C7_Witness ==
    /\ v2_pc = "scan"
    /\ v2_last_end > 0
    /\ frame_start > 0
    /\ v2_steps >= 3

\* C9: a search that runs with no byte read since the previous search
\* emits no frame, and once a frame is emitted its bytes and every byte
\* before it are out of the buffer.
C9_RescanIdempotent ==
    /\ v2_rescan = 0
    /\ v2_last_end <= v2_base

\* a second search over bytes left behind by a search that emitted a frame
C9_Witness ==
    /\ v2_pc = "scan"
    /\ ~v2_fresh
    /\ v2_steps > 0
    /\ v2_last_end > 0
    /\ Len(buffer) >= MIN_FRAME_SIZE

----
\* C1: every search loop of a pass of modbusSniffer.py advances its offset
\* or leaves the loop; in particular a pass of the direct search for slave
\* responses that stays in the loop has moved i forward.
C1_SearchLoopsAdvance ==
    [][(v1_pc = "direct" /\ v1_pc' = "direct") => v1_i' > v1_i]_vars

\* the last two bytes of frame are crc16 of the bytes before them
crc_matches(frame) ==
    /\ Len(frame) >= 2
    /\ SubSeq(frame, Len(frame) - 1, Len(frame))
           = crc16(SubSeq(frame, 1, Len(frame) - 2))

\* C2: modbusSniffer.py decodes and publishes a response, or records a
\* request as the pending request, only when the frame's last two bytes are
\* the CRC16 of the bytes before them.
C2_OnlyCrcCheckedFrames ==
    \A k \in 1..Len(v1_events) :
        \A j \in 1..Len(v1_events[k].frames) :
            crc_matches(v1_events[k].frames[j])

\* C5: after the append of the bytes read and the capacity check,
\* data_buffer holds at most MAX_BUFFER_SIZE bytes, and when old buffer plus
\* new bytes exceeded MAX_BUFFER_SIZE it is exactly their last
\* MAX_BUFFER_SIZE bytes.
C5_BufferCapped ==
    /\ Len(data_buffer) <= MAX_BUFFER_SIZE
    /\ (v1_pc = "prep" /\ Len(v1_old) + Len(v1_new) > MAX_BUFFER_SIZE) =>
           data_buffer = SubSeq(v1_old \o v1_new,
                                Len(v1_old) + Len(v1_new)
                                    - MAX_BUFFER_SIZE + 1,
                                Len(v1_old) + Len(v1_new))

\* an append onto a non-empty buffer that overflowed MAX_BUFFER_SIZE
C5_Witness ==
    /\ v1_pc = "prep"
    /\ Len(v1_old) > 0
    /\ Len(v1_old) + Len(v1_new) > MAX_BUFFER_SIZE

\* C8: when modbusSniffer.py processes a frame found at offset i with
\* length L, it deletes exactly the first i + L bytes of data_buffer, on the
\* fallback path as on the others.
C8_RemovesThroughFrameEnd ==
    \A k \in 1..Len(v1_events) : v1_events[k].removed = v1_events[k].end

\* C10: every publish of modbusSniffer.py carries a mapping decoded in the
\* same pass of the main loop; a response that yields no values publishes
\* nothing, so no mapping of an earlier pass is published.
C10_PublishesFreshValues ==
    \A k \in 1..Len(v1_published) :
        /\ Truthy(v1_published[k].values)
        /\ v1_published[k].values.made = v1_published[k].cycle

\* C11: whenever modbusSniffer.py takes a master request out of the buffer,
\* alone or together with its response, last_request afterwards holds that
\* request's start register and register count.
C11_RequestBecomesPending ==
    \A k \in 1..Len(v1_log) :
        v1_log[k].request.kind = "dict" =>
            /\ v1_log[k].lr_after.kind = "dict"
            /\ v1_log[k].lr_after.startreg = v1_log[k].request.startreg
            /\ v1_log[k].lr_after.regcount = v1_log[k].request.regcount

\* C12: in modbusSnifferV2.py a CRC-valid 8-byte frame with function code
\* 0x03 is classified as a request by decode_modbus_frame, and once it is
\* processed last_request_start_addr and last_request_registers are its
\* start register and its count.
C12_RequestRecognised ==
    (Len(v2_info.frame) = 8 /\ At(v2_info.frame, 1) = 3) =>
        /\ v2_info.request_type = "request"
        /\ last_request_start_addr
               = At(v2_info.frame, 2) * 256 + At(v2_info.frame, 3)
        /\ last_request_registers
               = At(v2_info.frame, 4) * 256 + At(v2_info.frame, 5)

\* C13: after modbusSniffer.py has decoded and published a response with the
\* start register of the pending request, last_request is None.
C13_PendingClearedAfterResponse ==
    \A k \in 1..Len(v1_log) :
        (/\ v1_log[k].response = "data"
         /\ v1_log[k].pending.kind = "dict"
         /\ v1_log[k].published) =>
            v1_log[k].lr_after.kind = "None"

\* C14: an error response (function code with the high bit set) met by
\* modbusSniffer.py leaves last_request None.
C14_ErrorClearsPending ==
    \A k \in 1..Len(v1_log) :
        v1_log[k].response = "error" => v1_log[k].lr_after.kind = "None"

\* C15: an error response (function code with the high bit set) met by
\* modbusSniffer.py leads to no publish, at whatever place of the pass it
\* is met.
C15_ErrorNeverPublished ==
    \A k \in 1..Len(v1_log) :
        v1_log[k].response = "error" => ~v1_log[k].published

\* a stand-alone error response was met while a request was pending
C15_Witness ==
    \E k \in 1..Len(v1_log) :
        /\ v1_log[k].response = "error"
        /\ v1_log[k].site = "single"
        /\ v1_log[k].lr_before.kind = "dict"

\* ---- map_values_to_labels called on its own

MaxMapValues == 4

\* the start registers tried: those of REGISTER_MAP, two in its gaps and
\* two outside it
MapStarts == DOMAIN REGISTER_MAP \cup {8190, 8226, 8242, 4096}

InitLabels ==
    /\ RestCrc /\ InitV2 /\ InitV1
    /\ \E n \in 0..MaxMapValues, start_register \in MapStarts :
          call_args = [kind |-> "map_values_to_labels",
                       values |-> [i \in 1..n |-> <<i>>],
                       start_register |-> start_register]
    /\ call_result = PyNone

CallMapValues ==
    /\ call_args.kind = "map_values_to_labels"
    /\ call_result = PyNone
    /\ call_result' = map_values_to_labels(call_args.values,
                                           call_args.start_register)
    /\ UNCHANGED <<call_args, notCall>>

NextLabels == CallMapValues

SpecLabels == InitLabels /\ [][NextLabels]_vars

\* C17: map_values_to_labels gives the i-th value (i from 0) the label
\* REGISTER_MAP holds for the address start_register + 2*i, and the generic
\* name of that address when REGISTER_MAP does not hold it.
C17_LabelIsThatOfAddress ==
    call_result.kind = "dict" =>
        \A i \in 0..(Len(call_result.values) - 1) :
            LET register_addr == call_args.start_register + 2 * i
            IN  call_result.labels[i + 1] =
                    IF register_addr \in DOMAIN REGISTER_MAP
                    THEN <<REGISTER_MAP[register_addr]>>
                    ELSE generic_name(register_addr)

\* C26: map_values_to_labels never drops or merges a value: the result has
\* one key per value handed in and no two of the keys are equal; a value
\* beyond the end of LABELS, or any value when the start register is not in
\* REGISTER_MAP, has the generic name of the address start_register + 2*i.
C26_OneEntryPerValue ==
    call_result.kind = "dict" =>
        LET n == Len(call_args.values)
            start_register == call_args.start_register
            known == start_register \in DOMAIN REGISTER_MAP
            first == IF known
                     THEN CHOOSE k \in 1..Len(LABELS) :
                              LABELS[k] = REGISTER_MAP[start_register]
                     ELSE 0
        IN  /\ Len(call_result.labels) = n
            /\ Len(call_result.items) = n
            /\ \A i, j \in 1..n :
                   i # j => call_result.labels[i] # call_result.labels[j]
            /\ \A i \in 1..n :
                   (~known \/ first + (i - 1) > Len(LABELS)) =>
                       /\ call_result.labels[i][1] = "Register"
                       /\ call_result.labels[i] =
                              generic_name(start_register + 2 * (i - 1))
                       /\ \A a \in 0..70000 :
                              a # start_register + 2 * (i - 1) =>
                                  generic_name(a) # call_result.labels[i]

\* values beyond the end of LABELS have been mapped
C26_Witness ==
    /\ call_result.kind = "dict"
    /\ call_args.start_register = 8240
    /\ Len(call_args.values) = 4
    /\ call_result.labels =
           <<<<"PFc">>, <<"Freq">>, <<"Register", 2, 0, 3, 4>>,
             <<"Register", 2, 0, 3, 6>>>>

\* C27: a failure of a sink does not end the scanning loop of
\* modbusSnifferV2.py: after export_to_csv met an I/O error or publish_mqtt
\* an MQTT error for a decoded frame, main() is still in "while True".
C27_SinkFailureLoopGoesOn ==
    v2_info.csv = "error" \/ v2_info.mqtt = "error" => v2_pc # "stopped"

\* C28: when send_mqtt raises while a stand-alone response decoded by
\* modbusSniffer.py is being published (the step of the stand-alone
\* responses is left for the next read), the bytes of that response have
\* been taken out of data_buffer.
C28_RaisedPublishConsumes ==
    [][(v1_pc = "single" /\ v1_pc' = "read") =>
           Len(data_buffer') < Len(data_buffer)]_vars

\* C29: bytes leave data_buffer of modbusSniffer.py only from its front:
\* a read leaves a suffix of the old buffer followed by the bytes read, and
\* every other step of a pass leaves a suffix of the buffer it found, so a
\* frame in the buffer keeps its bytes, runs of zero bytes included.
C29_BytesLeaveFromFront ==
    [][IF v1_pc = "read" /\ v1_pc' = "prep"
       THEN IsSuffix(data_buffer', data_buffer \o v1_new')
       ELSE IsSuffix(data_buffer', data_buffer)]_vars

\* C30: when a pass of the main loop of modbusSniffer.py reaches its end
\* with frames_processed = 0, data_buffer holds at most MAX_BUFFER_SIZE / 2
\* bytes, and they are the last bytes of the buffer the end of the pass
\* found.
C30_HalvedAtEndOfPass ==
    [][(v1_pc = "tail" /\ v1_pc' = "read" /\ frames_processed' = 0) =>
           /\ 2 * Len(data_buffer') <= MAX_BUFFER_SIZE
           /\ IsSuffix(data_buffer', data_buffer)]_vars

\* a pass that processed no frame has ended with the later half of a full
\* buffer
C30_Witness ==
    /\ v1_pc = "read"
    /\ v1_cycle > 0
    /\ frames_processed = 0
    /\ data_buffer = SubSeq(LineBigError, MAX_BUFFER_SIZE \div 2 + 1, MAX_BUFFER_SIZE)

(***************************************************************************)
(* SpecExtract: extract_first_valid_modbus_frame applied to the hex string *)
(* of 0..MaxExtractParts parts of ExtractParts one after another           *)
(***************************************************************************)
MaxExtractParts == 3

\* a request for register 0x0000, which is not plausible
ExtractBadReq == WithCrc(<<159, 3, 0, 0, 0, 1>>)

ExtractParts == {V1Req, V1Resp, ExtractBadReq, <<170>>, <<170, 171, 172>>}

RECURSIVE Flat(_)
Flat(parts) == IF parts = <<>> THEN <<>> ELSE Head(parts) \o Flat(Tail(parts))

ExtractInputs == {Flat(parts) : parts \in UNION {[1..n -> ExtractParts] : n \in 0..MaxExtractParts}}

InitExtract ==
    /\ RestCrc /\ InitV2 /\ InitV1
    /\ \E data \in ExtractInputs :
          call_args = [kind |-> "extract_first_valid_modbus_frame",
                       hex_string |-> hex(data)]
    /\ call_result = PyNone

CallExtract ==
    /\ call_args.kind = "extract_first_valid_modbus_frame"
    /\ call_result = PyNone
    /\ call_result' = [kind |-> "frame",
                       frame |-> extract_first_valid_modbus_frame(
                                     call_args.hex_string)]
    /\ UNCHANGED <<call_args, notCall>>

NextExtract == CallExtract

SpecExtract == InitExtract /\ [][NextExtract]_vars

\* a structurally valid request starts at offset i of data: 9F, function 03
\* or 04, start register 0x2000..0x2200, count 1..64, 8 bytes in data
C31_RequestAt(data, i) ==
    /\ i + 8 <= Len(data)
    /\ At(data, i) = 159 /\ At(data, i + 1) \in {3, 4}
    /\ 8192 <= be16(data, i + 2) /\ be16(data, i + 2) <= 8704
    /\ 1 <= be16(data, i + 4) /\ be16(data, i + 4) <= 64

\* a structurally valid response starts at offset i of data: an address
\* other than 9F, function 03 or 04, a byte count 4..256 that is a multiple
\* of 4, and header, payload and CRC in data
C31_ResponseAt(data, i) ==
    /\ i + 5 <= Len(data)
    /\ At(data, i) # 159 /\ At(data, i + 1) \in {3, 4}
    /\ At(data, i + 2) % 4 = 0
    /\ 4 <= At(data, i + 2) /\ At(data, i + 2) <= 256
    /\ i + 3 + At(data, i + 2) + 2 <= Len(data)

\* C31: extract_first_valid_modbus_frame returns the frame that starts at
\* the earliest offset at which a structurally valid request or response
\* starts.
C31_EarliestFrameFirst ==
    call_result.kind = "frame" =>
        LET data == fromhex(call_args.hex_string)
            starts == {i \in 0..(Len(data) - 1) :
                          C31_RequestAt(data, i) \/ C31_ResponseAt(data, i)}
        IN  starts # {} => call_result.frame.offset = MinOf(starts)

\* C31, amended: extract_first_valid_modbus_frame returns the earliest
\* structurally valid request among the offsets below len(data) - 8 when
\* there is one, also when a response starts before it; when there is none
\* it returns the earliest structurally valid response among the offsets
\* below len(data) - 5 when there is one.
C31_RequestsBeforeResponses ==
    call_result.kind = "frame" =>
        LET data == fromhex(call_args.hex_string)
            frame == call_result.frame
            reqs == {i \in 0..(Len(data) - 9) : C31_RequestAt(data, i)}
            resps == {i \in 0..(Len(data) - 6) : C31_ResponseAt(data, i)}
        IN  /\ reqs # {} =>
                   /\ frame.offset = MinOf(reqs)
                   /\ frame.address = 159
                   /\ frame.payload =
                          SubSeq(data, MinOf(reqs) + 3, MinOf(reqs) + 6)
            /\ (reqs = {} /\ resps # {}) =>
                   /\ frame.offset = MinOf(resps)
                   /\ frame.address = At(data, MinOf(resps))
                   /\ frame.payload =
                          SubSeq(data, MinOf(resps) + 4,
                                 MinOf(resps) + 3 + At(data, MinOf(resps) + 2))

\* a response at offset 0 and a request at offset 9: the request is
\* returned
C31_Witness ==
    /\ call_result.kind = "frame"
    /\ fromhex(call_args.hex_string) = V1Resp \o V1Req \o <<170>>
    /\ call_result.frame.offset = 9
    /\ call_result.frame.address = 159

C33_RequestAtEndRecognised ==
    /\ v1_pc = "pairs" =>
           \A i \in 0..(Len(data_buffer) - 1) :
               C31_RequestAt(data_buffer, i) =>
                   \E k \in 1..Len(requests_found) :
                       requests_found[k].position = i
    /\ call_result.kind = "frame" =>
           LET data == fromhex(call_args.hex_string)
           IN  ((\E i \in 0..(Len(data) - 1) : C31_RequestAt(data, i))
                /\ (\A i \in 0..(Len(data) - 1) : ~C31_ResponseAt(data, i)))
                   => call_result.frame.address = 159

\* C34: modbusSnifferV2.py decodes a frame as a function-0x03 response
\* only when the length of the frame is 3 + byte_count + 2, byte_count
\* being its third byte.
C34_ResponseLengthMatches ==
    v2_info.request_type = "response" =>
        Len(v2_info.frame) = 3 + At(v2_info.frame, 2) + 2

\* C35: in modbusSnifferV2.py a CRC-valid response frame with function code
\* 0x04 (3 + byte_count + 2 bytes long) is decoded into smart-meter values
\* the same way as one with function code 0x03: the search step that finds
\* it records the request type and the values that decode_modbus_frame and
\* print_frame_info give for the same frame with function code 3.
C35_Function4AsFunction3 ==
    [][(/\ v2_pc = "scan"
        /\ v2_steps' # v2_steps
        /\ valid_frame_size(buffer, frame_start) > 0
        /\ At(v2_info'.frame, 1) = 4
        /\ Len(v2_info'.frame) = 3 + At(v2_info'.frame, 2) + 2)
       => LET as3 == decode_modbus_frame([v2_info'.frame EXCEPT ![2] = 3],
                                         last_request_start_addr,
                                         last_request_registers)
          IN  /\ v2_info'.request_type = as3.request_type
              /\ v2_info'.smart_meter_values = smart_meter_values(as3)]_vars

\* a complete CRC-valid frame lies in the buffer of modbusSnifferV2.py
frame_in_buffer ==
    \E fs \in 0..(Len(buffer) - MIN_FRAME_SIZE) :
        valid_frame_size_direct(buffer, fs) > 0

\* every read of main is followed by another one
reads_keep_completing == []<>(v2_iter = 0) /\ []<>(v2_iter = 1)

\* C36: in modbusSnifferV2.py main, for every pattern of reads that keep
\* completing, also one in which each read returns further bytes: once a
\* complete CRC-valid frame is in the buffer, it is eventually decoded and
\* removed, so that the buffer holds no such frame any more.
C36_FrameEventuallyDecoded ==
    reads_keep_completing
        => ((v2_pc # "scan" /\ frame_in_buffer) ~> ~frame_in_buffer)

\* C37: in modbusSnifferV2.py no NaN and no infinite value is ever stored
\* in smart_meter_values (and so handed to export_to_csv and publish_mqtt).
C37_StoredValuesFinite ==
    \A e \in v2_info.smart_meter_values : ~is_nan_or_inf(e.value)

\* C38: every value that modbusSniffer.py stores in last_request has a
\* start register within 0x2000..0x2200 and a register count within 1..64,
\* whichever search found the request.
C38_LastRequestPlausible ==
    Truthy(last_request) =>
        /\ last_request.startreg \in 8192..8704
        /\ last_request.regcount \in 1..64

(***************************************************************************)
(* SpecPublish: publish_mqtt of modbusSnifferV2.py called for one decoded  *)
(* frame after the other.  call_args holds the global                      *)
(* mqtt_last_publish_time and the last reading of time.time();             *)
(* call_result holds what the last call did, what the call before it did,  *)
(* and the readings of time.time() of the calls that published.            *)
(***************************************************************************)
ClockStart == 1000
MaxClockStep == 11
MaxPublishCalls == 4

InitPublish ==
    /\ RestCrc /\ InitV2 /\ InitV1
    /\ call_args = [kind |-> "publish_mqtt", mqtt_last_publish_time |-> 0,
                    clock |-> ClockStart, calls |-> 0]
    /\ call_result = [kind |-> "publish_mqtt", outcome |-> "none",
                      previous |-> "none", published |-> <<>>]

CallPublish ==
    /\ call_args.kind = "publish_mqtt"
    /\ call_args.calls < MaxPublishCalls
    /\ \E has_values \in BOOLEAN, step \in 0..MaxClockStep,
          raised \in {"none", "connect", "publish", "disconnect"} :
          LET current_time == call_args.clock + step
              r == publish_mqtt(has_values, current_time,
                                call_args.mqtt_last_publish_time, raised)
          IN  /\ call_args' = [call_args EXCEPT
                                  !.mqtt_last_publish_time =
                                      r.mqtt_last_publish_time,
                                  !.clock = current_time,
                                  !.calls = @ + 1]
              /\ call_result' = [call_result EXCEPT
                                    !.outcome = r.outcome,
                                    !.previous = call_result.outcome,
                                    !.published =
                                        IF r.outcome = "sent"
                                        THEN Append(@, current_time)
                                        ELSE @]
    /\ UNCHANGED notCall

NextPublish == CallPublish

SpecPublish == InitPublish /\ [][NextPublish]_vars

\* C39: in modbusSnifferV2.py any two successful MQTT publishes are at least
\* MQTT_PUBLISH_INTERVAL seconds apart; a publish attempt that fails leaves
\* mqtt_last_publish_time unchanged, so the call for the next decoded frame
\* does not wait for the interval.
C39_PublishesApart ==
    /\ [](call_result.kind = "publish_mqtt" =>
             \A i, j \in DOMAIN call_result.published :
                 i < j => call_result.published[j] - call_result.published[i]
                              >= MQTT_PUBLISH_INTERVAL)
    /\ [][call_args.kind = "publish_mqtt" =>
             /\ call_result'.outcome = "error" =>
                    call_args'.mqtt_last_publish_time
                        = call_args.mqtt_last_publish_time
             /\ call_result.outcome = "error" =>
                    call_result'.outcome # "wait"]_vars

\* a failed attempt, and then a publish exactly MQTT_PUBLISH_INTERVAL after
\* the one before
C39_Witness ==
    /\ call_result.kind = "publish_mqtt"
    /\ call_result.outcome = "sent"
    /\ call_result.previous = "error"
    /\ Len(call_result.published) = 2
    /\ call_result.published[2] - call_result.published[1]
           = MQTT_PUBLISH_INTERVAL

\* C16: when modbusSniffer.py pairs a request whose start register is in
\* REGISTER_MAP with the response that follows it and publishes the decoded
\* values, value index 0 carries the label REGISTER_MAP holds for the
\* request's start register; so it does when the response is met alone
\* while that request is the pending one.
C16_FirstLabelIsStartRegister ==
    /\ \A k \in 1..Len(v1_log) :
        (/\ v1_log[k].site \in {"pair", "extended"}
         /\ v1_log[k].response = "data"
         /\ v1_log[k].published
         /\ v1_log[k].request.startreg \in DOMAIN REGISTER_MAP) =>
            /\ v1_log[k].mv.kind = "dict"
            /\ Len(v1_log[k].mv.labels) >= 1
            /\ v1_log[k].mv.labels[1] =
                   <<REGISTER_MAP[v1_log[k].request.startreg]>>
            /\ \E j \in 1..Len(v1_published) :
                   v1_published[j].values = v1_log[k].mv
    /\ \A k \in 1..Len(v1_log) :
        (/\ v1_log[k].site \in {"single", "fallback", "direct"}
         /\ v1_log[k].response = "data"
         /\ v1_log[k].published
         /\ v1_log[k].pending.kind = "dict"
         /\ v1_log[k].pending.startreg \in DOMAIN REGISTER_MAP) =>
            /\ v1_log[k].mv.kind = "dict"
            /\ Len(v1_log[k].mv.labels) >= 1
            /\ v1_log[k].mv.labels[1] =
                   <<REGISTER_MAP[v1_log[k].pending.startreg]>>

\* a request for one register from 0x2006 was paired with a response of
\* four bytes, decoded as one float, and the values were published
C16_Witness ==
    \E k \in 1..Len(v1_log) :
        /\ v1_log[k].site = "pair"
        /\ v1_log[k].response = "data"
        /\ v1_log[k].published
        /\ v1_log[k].request.startreg = 8198
        /\ v1_log[k].request.regcount = 1
        /\ v1_log[k].mv.values =
               process_modbus_payload(<<76, 205, 67, 102>>, "float32")

\* C18: a response that modbusSniffer.py processes while no request is
\* pending is decoded and published, labelled from the start register
\* 0x2000, at every place that processes a response, the fallback after
\* extract_first_valid_modbus_frame included.
C18_ResponseWithoutRequestPublished ==
    \A k \in 1..Len(v1_log) :
        (/\ v1_log[k].response = "data"
         /\ v1_log[k].site \in {"single", "fallback", "direct"}
         /\ v1_log[k].pending.kind = "None") =>
            /\ v1_log[k].published
            /\ v1_log[k].mv.kind = "dict"
            /\ v1_log[k].mv.start_register = 8192

\* C19: when modbusSniffer.py pairs a request with a response whose byte
\* count is not register count * 4, the response is published with the
\* values process_modbus_payload decodes from its byte_count payload bytes
\* as 32-bit floats.
C19_MismatchStillFloat32 ==
    \A k \in 1..Len(v1_log) :
        (/\ v1_log[k].site \in {"pair", "extended"}
         /\ v1_log[k].response = "data"
         /\ Len(v1_log[k].frames) = 1
         /\ At(v1_log[k].frames[1], 2) # v1_log[k].request.regcount * 4) =>
            /\ v1_log[k].published
            /\ v1_log[k].mv.kind = "dict"
            /\ v1_log[k].mv.values =
                   process_modbus_payload(
                       Slice(v1_log[k].frames[1], 3,
                             3 + At(v1_log[k].frames[1], 2)), "float32")

\* ---- process_modbus_payload called on its own, force_format='float32'

MaxPayloadLen == 4

\* the bytes tried: data bytes, the function codes 3 and 4, the master
\* address 0x9F
PayloadBytes == {0, 3, 4, 159}

PayloadsOfBytes == UNION {[1..n -> PayloadBytes] : n \in 0..MaxPayloadLen}

MaxPayloadChunks == 3

\* the chunks tried: 230.3, 0.0, +infinity, a NaN, 1e10, -1e10 and the
\* greatest single below 1e10
PayloadChunks ==
    {<<76, 205, 67, 102>>, <<0, 0, 0, 0>>, <<0, 0, 127, 128>>,
     <<0, 1, 127, 192>>, <<2, 249, 80, 21>>, <<2, 249, 208, 21>>,
     <<2, 248, 80, 21>>}

RECURSIVE Flatten(_)
Flatten(chunks) ==
    IF chunks = <<>> THEN <<>> ELSE Head(chunks) \o Flatten(Tail(chunks))

PayloadsOfChunks ==
    {Flatten(chunks) : chunks \in UNION {[1..n -> PayloadChunks] :
                                            n \in 1..MaxPayloadChunks}}

InitPayload ==
    /\ RestCrc /\ InitV2 /\ InitV1
    /\ \E payload \in PayloadsOfBytes \cup PayloadsOfChunks :
          call_args = [kind |-> "process_modbus_payload",
                       payload |-> payload, force_format |-> "float32"]
    /\ call_result = PyNone

CallPayload ==
    /\ call_args.kind = "process_modbus_payload"
    /\ call_result = PyNone
    /\ call_result' =
           [kind |-> "list",
            values |-> process_modbus_payload(call_args.payload,
                                              call_args.force_format)]
    /\ UNCHANGED <<call_args, notCall>>

NextPayload == CallPayload

SpecPayload == InitPayload /\ [][NextPayload]_vars

\* C20: process_modbus_payload with force_format 'float32' returns
\* floor(len(payload) / 4) values, the i-th (from 0) being what the float32
\* branch makes of the payload bytes [4i, 4i+4): no byte of the payload is
\* left out before the values are decoded.
C20_EveryChunkDecoded ==
    call_result.kind = "list" =>
        /\ Len(call_result.values) = Len(call_args.payload) \div 4
        /\ \A i \in 0..(Len(call_result.values) - 1) :
               (4 * i + 4 <= Len(call_args.payload)) =>
                   call_result.values[i + 1] =
                       float32_value(chunk4(call_args.payload, i))

\* ---- the float decoders of both scripts called on one register pair

\* the bytes tried for A, B, C, D
FloatBytes == {0, 67, 102, 127}

\* the chunks tried: every chunk of FloatBytes, 45 14 60 00 and
\* b3 33 43 66
FloatChunks == [1..4 -> FloatBytes] \cup {<<69, 20, 96, 0>>, <<179, 51, 67, 102>>}

InitFloat ==
    /\ RestCrc /\ InitV2 /\ InitV1
    /\ \E chunk \in FloatChunks :
          call_args = [kind |-> "chunk", chunk |-> chunk]
    /\ call_result = PyNone

\* modbusSniffer.py: parse_modbus_float_inverse(chunk)
CallParseFloatInverse ==
    /\ call_args.kind = "chunk"
    /\ call_result = PyNone
    /\ call_result' = [kind |-> "value", by |-> "parse_modbus_float_inverse",
                       value |-> parse_modbus_float_inverse(call_args.chunk)]
    /\ UNCHANGED <<call_args, notCall>>

\* modbusSnifferV2.py: the registers decode_modbus_frame makes of the four
\* data bytes, then interpret_float32(registers[i], registers[i + 1]) as
\* try_decode_with_addr calls it
CallInterpretFloat32 ==
    /\ call_args.kind = "chunk"
    /\ call_result = PyNone
    /\ LET registers == registers_of(call_args.chunk)
       IN  call_result' =
               [kind |-> "value", by |-> "interpret_float32",
                value |-> [kind |-> "float",
                           bits |-> interpret_float32(registers[1],
                                                      registers[2])]]
    /\ UNCHANGED <<call_args, notCall>>

NextFloat == CallParseFloatInverse \/ CallInterpretFloat32

SpecFloat == InitFloat /\ [][NextFloat]_vars

\* C21: both float decoders read the register bytes [A, B, C, D] as the
\* big-endian single with the bytes C, D, A, B (parse_modbus_float_inverse
\* then turns a magnitude below 1e-10 into 0.0 and one of 1e10 or more into
\* None).
C21_WordsSwapped ==
    call_result.kind = "value" =>
        LET chunk == call_args.chunk
            swapped == <<chunk[3] * 256 + chunk[4], chunk[1] * 256 + chunk[2]>>
        IN  \/ call_result.value.kind = "None"
            \/ call_result.value.bits = swapped
            \/ /\ call_result.by = "parse_modbus_float_inverse"
               /\ call_result.value.bits = F_ZERO
               /\ WordLess(magnitude(swapped), F_1EM10)

\* the singles 230.2, 231.2, 2302.0 and 2312.0
F_230_2 == <<17254, 13107>>
F_231_2 == <<17255, 13107>>
F_2302 == <<17679, 57344>>
F_2312 == <<17680, 32768>>

\* C22: parse_modbus_float_inverse makes of the chunk 45 14 60 00 a value
\* that, scaled by the factor 0.1 of a phase voltage and rounded to three
\* decimals, is about 230.7: the value is a positive single between 2302
\* and 2312, or between 230.2 and 231.2 should no factor apply.
C22_ChunkIs230_7 ==
    (/\ call_result.kind = "value"
     /\ call_result.by = "parse_modbus_float_inverse"
     /\ call_args.chunk = <<69, 20, 96, 0>>) =>
        /\ call_result.value.kind = "float"
        /\ call_result.value.bits[1] < 32768
        /\ \/ /\ WordLess(F_2302, call_result.value.bits)
              /\ WordLess(call_result.value.bits, F_2312)
           \/ /\ WordLess(F_230_2, call_result.value.bits)
              /\ WordLess(call_result.value.bits, F_231_2)

\* C23: in the float32 branch of process_modbus_payload a 4-byte chunk whose
\* word-swapped single is a NaN, an infinity or of magnitude 1e10 or more
\* puts 0.0 at its own index of the returned list: the list has one value
\* per chunk, so the values after it keep their index.
C23_BadChunkIsZeroInPlace ==
    call_result.kind = "list" =>
        LET cleaned == cleaned_payload(call_args.payload)
        IN  /\ Len(call_args.payload) >= 2 =>
                   Len(call_result.values) = Len(cleaned) \div 4
            /\ \A i \in 0..(Len(call_result.values) - 1) :
                   ~WordLess(magnitude(float_inverse(chunk4(cleaned, i))),
                             F_1E10)
                       => call_result.values[i + 1] = F_ZERO

\* an infinity was decoded ahead of 230.3, which stays second
C23_Witness ==
    /\ call_result.kind = "list"
    /\ call_args.payload = <<0, 0, 127, 128, 76, 205, 67, 102>>
    /\ call_result.values = <<F_ZERO, float_inverse(<<76, 205, 67, 102>>)>>

\* ---- apply_plausibility_check called on its own

MaxPlausibilityItems == 2

\* the start registers the keys are taken from: Uab Ubc, Ic Pt, PFc Freq,
\* Freq Register2046, Register1000 Register1002
PlausibilityStarts == {8192, 8208, 8240, 8260, 4096}

\* the values tried, in thousandths: bounds of the ranges, their
\* neighbours, -5.0 and 900.0
PlausibilityValues ==
    {-5000, -1001, -1000, -1, 0, 1000, 1001, 44999, 45000, 65000, 65001,
     100000, 100001, 500000, 500001, 900000}

InitPlausibility ==
    /\ RestCrc /\ InitV2 /\ InitV1
    /\ \E n \in 0..MaxPlausibilityItems, start \in PlausibilityStarts :
          \E items \in [1..n -> PlausibilityValues] :
              call_args = [kind |-> "apply_plausibility_check",
                           values_dict |->
                               [kind |-> "dict", values |-> <<>>,
                                start_register |-> start,
                                labels |-> label_keys(n, start),
                                items |-> items,
                                checked |-> FALSE, made |-> 0]]
    /\ call_result = PyNone

CallPlausibility ==
    /\ call_args.kind = "apply_plausibility_check"
    /\ call_result = PyNone
    /\ call_result' =
           [kind |-> "checked",
            result |-> apply_plausibility_check(call_args.values_dict),
            prints |-> plausibility_prints(call_args.values_dict)]
    /\ UNCHANGED <<call_args, notCall>>

NextPlausibility == CallPlausibility

SpecPlausibility == InitPlausibility /\ [][NextPlausibility]_vars

\* the range (min, max) of a label in thousandths, as the table of the
\* claim's bands reads: voltages 0..500, currents 0..100, powers
\* -50000..50000, power factors -1..1, frequency 45..65
C24_Band(label) ==
    IF label \in {"Uab", "Ubc", "Uca", "Ua", "Ub", "Uc"} THEN <<0, 500000>>
    ELSE IF label \in {"Ia", "Ib", "Ic"} THEN <<0, 100000>>
    ELSE IF label = "Freq" THEN <<45000, 65000>>
    ELSE IF label \in {"PFt", "PFa", "PFb", "PFc"} THEN <<-1000, 1000>>
    ELSE <<-50000000, 50000000>>

\* C24: apply_plausibility_check returns the keys of its input; a key that
\* starts with 'Register' keeps its value; a known label keeps its value
\* when min <= value <= max of its band and gets 0.0 otherwise; one
\* diagnostic is printed per replaced value and none else.
C24_ClampedToBand ==
    call_result.kind = "checked" =>
        LET in == call_args.values_dict
            out == call_result.result
            replaced == {i \in 1..Len(in.items) :
                            /\ Len(in.labels[i]) = 1
                            /\ \/ in.items[i] < C24_Band(in.labels[i][1])[1]
                               \/ in.items[i] > C24_Band(in.labels[i][1])[2]}
        IN  /\ out.labels = in.labels
            /\ Len(out.items) = Len(in.items)
            /\ \A i \in 1..Len(in.items) :
                   out.items[i] = IF i \in replaced THEN 0 ELSE in.items[i]
            /\ Len(call_result.prints) = Cardinality(replaced)
            /\ \A i \in replaced :
                   \E j \in 1..Len(call_result.prints) :
                       call_result.prints[j] = in.labels[i]

\* a voltage of 900.0 next to one of 500.0: the first replaced with one
\* diagnostic, the second kept
C24_Witness ==
    /\ call_result.kind = "checked"
    /\ call_args.values_dict.labels = <<<<"Uab">>, <<"Ubc">>>>
    /\ call_args.values_dict.items = <<900000, 500000>>
    /\ call_result.result.items = <<0, 500000>>
    /\ call_result.prints = <<<<"Uab">>>>

\* C25: every mapping modbusSniffer.py publishes has passed the
\* plausibility filter: each published value of a known label lies in the
\* range of the label or is 0.0, wherever the publish happens.
C25_PublishedIsPlausible ==
    \A j \in 1..Len(v1_published) :
        v1_published[j].values.kind = "dict" =>
            \A i \in 1..Len(v1_published[j].values.items) :
                \/ v1_published[j].values.items[i] = 0
                \/ plausible_item(v1_published[j].values.labels[i],
                                  v1_published[j].values.items[i])

====
